---------------------------- MODULE Spec2Model ----------------------------
(***************************************************************************)
(* State-machine model of the abouttt container library: the circular      *)
(* Queue (src/unnamed/part_002 and the copy at the end of                  *)
(* src/LinkedList.h), the binary-heap PriorityQueue, the Stack and the     *)
(* Vector (src/Vector.h and src/unnamed/part_001).                         *)
(*                                                                         *)
(* One object is constructed per behaviour; `class` says which class it    *)
(* is and `impl` which source file its methods come from.  A buffer is a   *)
(* record [null, slot]: `null` is the pointer being nullptr, `slot` the    *)
(* storage it points to, slot k of the code being slot[k + 1].  A slot     *)
(* holds Raw when it holds no live element.                                *)
(*                                                                         *)
(* abs, op, arg, err, ret and pre are history variables: the abstract      *)
(* contents the calls made so far should have produced, the last call,     *)
(* arguments of it, the error it signalled and the value it returned, and  *)
(* the count, capacity and front index the object had when that call was   *)
(* made.  ub records undefined behaviour (a store through a null pointer,  *)
(* an erase that addresses slots outside of the storage, a move between    *)
(* overlapping ranges); executions are followed up to the first such call. *)
(* orphan is the storage that calls have allocated and neither released    *)
(* nor handed to the object.                                               *)
(***************************************************************************)
EXTENDS Integers, Sequences, FiniteSets

VARIABLES class, impl, queue, pq, stack, vec, list, rhs, abs, op, arg, err, ret, pre, ub, orphan

vars == <<class, impl, queue, pq, stack, vec, list, rhs, abs, op, arg, err, ret, pre, ub, orphan>>

-----------------------------------------------------------------------------
(* Bounds of the model. *)

\* Element values are 1..NumVals.
NumVals == 2
\* Element values of the priority queue are 1..NumKeys.
NumKeys == 3
\* No insertion is made into a container that holds MaxCount elements.
MaxCount == 4
\* Capacities handed to the sizing constructors are 0..MaxInitCap.
MaxInitCap == 2
\* Arguments of Reserve / reserve are 0..MaxReserve.
MaxReserve == 3
\* Literal lists and fill counts have at most MaxList elements.
MaxList == 2
\* The Vector's size is kept within MaxSize.
MaxSize == 3
\* At most MaxOrphans buffers are left behind in a behaviour.
MaxOrphans == 1
\* size_t has SizeBits bits: arithmetic on it is modulo 2^SizeBits.
SizeBits == 4

\* ensureCapacity's first capacity (Queue, PriorityQueue, Stack).
FirstCapacity == 8

Vals == 1..NumVals
\* The Vector's element type T has two values: they tell apart the orders
\* and the positions its operations are about.
Elems == {1, 2}
Keys == 1..NumKeys
\* An unoccupied slot: raw storage, or a slot whose element was destroyed.
Raw == 0
\* The value of an element that a move constructor has taken the value of.
Moved == 0 - 1
\* The Stack, PriorityQueue, Queue and Vector objects that are not the one
\* under construction in a behaviour.
Unused == [mCount |-> 0]

SIZE_MAX == (2 ^ SizeBits) - 1
\* A sum or difference of size_t values, as the machine computes it.
Wrap(n) == n % (2 ^ SizeBits)

Min(a, b) == IF a < b THEN a ELSE b
Max(a, b) == IF a > b THEN a ELSE b

-----------------------------------------------------------------------------
(* Raw storage: ::operator new, std::construct_at, std::destroy_n, ...     *)

NullPtr == [null |-> TRUE, slot |-> << >>]
\* ::operator new(sizeof(T) * n): n raw slots; never nullptr, also for n = 0.
Alloc(n) == [null |-> FALSE, slot |-> [k \in 1..n |-> Raw]]
\* Whether p + i points into the storage of p.
InBuf(p, i) == ~p.null /\ i >= 0 /\ i < Len(p.slot)
\* p[i]; what is read outside of any storage is no element.
Load(p, i) == IF InBuf(p, i) THEN p.slot[i + 1] ELSE Raw
\* std::construct_at(p + i, v) and *(p + i) = v; a store outside of the
\* storage of p changes no slot of it.
Store(p, i, v) == IF InBuf(p, i) THEN [p EXCEPT !.slot[i + 1] = v] ELSE p
\* std::destroy_n(p + first, n)
destroy_n(p, first, n) ==
    [p EXCEPT !.slot = [k \in 1..Len(p.slot) |->
        IF k - 1 >= first /\ k - 1 < first + n THEN Raw ELSE p.slot[k]]]
\* std::uninitialized_move_n(from + first, n, to + dest) and
\* std::uninitialized_copy_n: slot dest + j of `to` receives from[first + j].
uninitialized_move_n(from, first, n, to, dest) ==
    [to EXCEPT !.slot = [k \in 1..Len(to.slot) |->
        IF k - 1 >= dest /\ k - 1 < dest + n
        THEN Load(from, first + (k - 1 - dest)) ELSE to.slot[k]]]
\* Elements [0, k) of p after move constructors took their values (moves), or
\* after copy constructors read them.
Sourced(p, k, moves) ==
    IF moves
    THEN [p EXCEPT !.slot = [i \in 1..Len(p.slot) |-> IF i <= k THEN Moved ELSE p.slot[i]]]
    ELSE p

\* The storage of an initializer_list.
ListBuf(s) == [null |-> FALSE, slot |-> s]

\* An abstract sequence less its first and less its last element.
RemoveFirst(s) == IF s = << >> THEN s ELSE Tail(s)
RemoveLast(s) == IF s = << >> THEN s ELSE SubSeq(s, 1, Len(s) - 1)
\* The elements of a sequence with the number of times each occurs.
BagOf(s) == [v \in {s[i] : i \in DOMAIN s} |-> Cardinality({i \in DOMAIN s : s[i] = v})]

\* All sequences over S of length at most n.
SeqsUpTo(S, n) == UNION {[1..k -> S] : k \in 0..n}

-----------------------------------------------------------------------------
(* Queue, src/unnamed/part_002                                             *)

\* Queue(size_t capacity)
Queue_Queue(capacity) ==
    [mData |-> IF capacity > 0 THEN Alloc(capacity) ELSE NullPtr,
     mFront |-> 0, mRear |-> 0, mCount |-> 0, mCapacity |-> capacity]

\* The elements front to rear, as operator==, Contains and Peek address them:
\* mData[(mFront + i) % mCapacity] for i < mCount.
Queue_Logical(q) ==
    [i \in 1..q.mCount |-> Load(q.mData, (q.mFront + (i - 1)) % q.mCapacity)]

Queue_destroyCircular(q) ==
    IF q.mData.null THEN q.mData
    ELSE IF q.mCount > 0
         THEN IF q.mFront < q.mRear
              THEN destroy_n(q.mData, q.mFront, q.mCount)
              ELSE destroy_n(destroy_n(q.mData, q.mFront, q.mCapacity - q.mFront),
                             0, q.mRear)
         ELSE q.mData

Queue_cleanup(q) ==
    IF ~q.mData.null
    THEN [mData |-> NullPtr, mFront |-> 0, mRear |-> 0, mCount |-> 0, mCapacity |-> 0]
    ELSE q

\* moveCircular without its split at the end of the storage.
Queue_moveCircular_Unwrapped(q, to, count) ==
    IF count = 0 THEN to ELSE uninitialized_move_n(q.mData, q.mFront, count, to, 0)

Queue_moveCircular(q, to, count) ==
    IF count = 0 THEN to
    ELSE IF q.mFront < q.mRear
         THEN uninitialized_move_n(q.mData, q.mFront, count, to, 0)
         ELSE LET frontPartSize == Min(count, q.mCapacity - q.mFront)
                  rearPartSize == count - frontPartSize
                  first == uninitialized_move_n(q.mData, q.mFront, frontPartSize, to, 0)
              IN IF rearPartSize > 0
                 THEN uninitialized_move_n(q.mData, 0, rearPartSize, first, frontPartSize)
                 ELSE first

\* copyCircular without its split at the end of the storage.
Queue_copyCircular_Unwrapped(from, to) ==
    IF from.mCount = 0 THEN to
    ELSE uninitialized_move_n(from.mData, from.mFront, from.mCount, to, 0)

Queue_copyCircular(from, to) ==
    IF from.mCount = 0 THEN to
    ELSE IF from.mFront < from.mRear
         THEN uninitialized_move_n(from.mData, from.mFront, from.mCount, to, 0)
         ELSE LET frontPartSize == from.mCapacity - from.mFront
              IN uninitialized_move_n(from.mData, 0, from.mRear,
                     uninitialized_move_n(from.mData, from.mFront, frontPartSize, to, 0),
                     frontPartSize)

Queue_reallocate(q, newCapacity) ==
    IF newCapacity = q.mCapacity THEN q
    ELSE IF newCapacity = 0 THEN Queue_cleanup(q)
    ELSE LET newData == Alloc(newCapacity)
             newCount == Min(q.mCount, newCapacity)
         IN [mData |-> IF ~q.mData.null
                       THEN Queue_moveCircular(q, newData, newCount)
                       ELSE newData,
             mFront |-> 0,
             mCount |-> newCount,
             mCapacity |-> newCapacity,
             mRear |-> IF newCount = newCapacity THEN 0 ELSE newCount]

Queue_ensureCapacity(q, minCapacity) ==
    IF minCapacity > q.mCapacity
    THEN LET grow == q.mCapacity + (q.mCapacity \div 2)
             newCapacity == Max(minCapacity,
                                IF q.mCapacity = 0 THEN FirstCapacity ELSE grow)
         IN Queue_reallocate(q, newCapacity)
    ELSE q

\* checkEmpty: whether it throws std::out_of_range.
Queue_checkEmpty(q) == q.mCount = 0

\* Emplace / Enqueue
Queue_Emplace(q, v) ==
    LET e == Queue_ensureCapacity(q, q.mCount + 1)
    IN [e EXCEPT !.mData = Store(e.mData, e.mRear, v),
                 !.mRear = (e.mRear + 1) % e.mCapacity,
                 !.mCount = e.mCount + 1]

\* Dequeue, past checkEmpty
Queue_Dequeue(q) ==
    [q EXCEPT !.mData = destroy_n(q.mData, q.mFront, 1),
              !.mFront = (q.mFront + 1) % q.mCapacity,
              !.mCount = q.mCount - 1]

Queue_Clear(q) ==
    [q EXCEPT !.mData = Queue_destroyCircular(q),
              !.mFront = 0, !.mRear = 0, !.mCount = 0]

Queue_Reserve(q, newCapacity) ==
    IF newCapacity > q.mCapacity THEN Queue_reallocate(q, newCapacity) ELSE q

Queue_Shrink(q) ==
    IF q.mCapacity > q.mCount THEN Queue_reallocate(q, q.mCount) ELSE q

\* Queue(const Queue& other)
Queue_Copy(other) ==
    LET c == Queue_Queue(other.mCount)
    IN [c EXCEPT !.mData = Queue_copyCircular(other, c.mData),
                 !.mCount = other.mCount,
                 !.mRear = IF other.mCount = c.mCapacity THEN 0 ELSE other.mCount]

\* What Queue(Queue&& other) leaves in other.
Queue_Moved == [mData |-> NullPtr, mFront |-> 0, mRear |-> 0, mCount |-> 0, mCapacity |-> 0]

-----------------------------------------------------------------------------
(* Queue, src/LinkedList.h (the class after LinkedListIterator)            *)

\* Queue(size_t capacity)
Queue2_Queue(capacity) ==
    [mData |-> IF capacity > 0 THEN Alloc(capacity) ELSE NullPtr,
     mFront |-> 0, mRear |-> 0, mCount |-> 0, mCapacity |-> capacity]

Queue2_Clear(q) ==
    IF ~q.mData.null
    THEN [q EXCEPT !.mData =
                     IF q.mFront < q.mRear
                     THEN destroy_n(q.mData, q.mFront, q.mCount)
                     ELSE destroy_n(destroy_n(q.mData, q.mFront, q.mCapacity - q.mFront),
                                    0, q.mRear),
                   !.mFront = 0, !.mRear = 0, !.mCount = 0]
    ELSE q

\* Clear, ::operator delete(mData), mData = nullptr; mCapacity is left as it is.
Queue2_clearAndDeallocate(q) ==
    IF ~q.mData.null
    THEN [Queue2_Clear(q) EXCEPT !.mData = NullPtr]
    ELSE q

Queue2_reallocate(q, newCapacity) ==
    IF newCapacity = q.mCapacity THEN q
    ELSE IF newCapacity = 0 THEN Queue2_clearAndDeallocate(q)
    ELSE LET newData == Alloc(newCapacity)
             newCount == Min(q.mCount, newCapacity)
             filled ==
                 IF ~q.mData.null /\ newCount > 0
                 THEN IF q.mFront < q.mRear
                      THEN uninitialized_move_n(q.mData, q.mFront, newCount, newData, 0)
                      ELSE LET frontPart == Min(newCount, q.mCapacity - q.mFront)
                               remaining == newCount - frontPart
                               first == uninitialized_move_n(q.mData, q.mFront,
                                                             frontPart, newData, 0)
                           IN IF remaining > 0
                              THEN uninitialized_move_n(q.mData, 0, remaining,
                                                        first, frontPart)
                              ELSE first
                 ELSE newData
         IN [mData |-> filled,
             mFront |-> 0,
             mRear |-> newCount % newCapacity,
             mCount |-> newCount,
             mCapacity |-> newCapacity]

Queue2_ensureCapacity(q, minCapacity) ==
    IF minCapacity > q.mCapacity
    THEN LET grow == q.mCapacity + (q.mCapacity \div 2)
             newCapacity == Max(minCapacity,
                                IF q.mCapacity = 0 THEN FirstCapacity ELSE grow)
         IN Queue2_reallocate(q, newCapacity)
    ELSE q

\* checkEmpty: whether it throws std::out_of_range.
Queue2_checkEmpty(q) == q.mCount = 0

\* Emplace / Enqueue
Queue2_Emplace(q, v) ==
    LET e == Queue2_ensureCapacity(q, q.mCount + 1)
    IN [e EXCEPT !.mData = Store(e.mData, e.mRear, v),
                 !.mRear = (e.mRear + 1) % e.mCapacity,
                 !.mCount = e.mCount + 1]

\* Dequeue, past checkEmpty
Queue2_Dequeue(q) ==
    [q EXCEPT !.mData = destroy_n(q.mData, q.mFront, 1),
              !.mFront = (q.mFront + 1) % q.mCapacity,
              !.mCount = q.mCount - 1]

Queue2_Reserve(q, newCapacity) ==
    IF newCapacity > q.mCapacity THEN Queue2_reallocate(q, newCapacity) ELSE q

Queue2_Shrink(q) ==
    IF q.mCapacity > q.mCount THEN Queue2_reallocate(q, q.mCount) ELSE q

\* Queue(const Queue& other)
Queue2_Copy(other) ==
    [mData |-> [null |-> FALSE,
                slot |-> [k \in 1..other.mCount |->
                    Load(other.mData, (other.mFront + (k - 1)) % other.mCapacity)]],
     mFront |-> 0,
     mRear |-> other.mCount % (IF other.mCount = 0 THEN 1 ELSE other.mCount),
     mCount |-> other.mCount,
     mCapacity |-> other.mCount]

-----------------------------------------------------------------------------
(* PriorityQueue, src/PriorityQueue.h, with Compare = std::less<T>.        *)
(* The field log of the object is a history field: the heapifyUp and        *)
(* heapifyDown calls the method call under way has made.                   *)

\* std::less<T>
mCompare(a, b) == a < b

\* std::swap(p[i], p[j])
swap(p, i, j) == Store(Store(p, i, Load(p, j)), j, Load(p, i))

\* PriorityQueue(size_t capacity, const Compare& comp)
PriorityQueue_PriorityQueue(capacity) ==
    [mData |-> IF capacity > 0 THEN Alloc(capacity) ELSE NullPtr,
     mCount |-> 0, mCapacity |-> capacity, log |-> << >>]

\* The while loop of heapifyUp.
RECURSIVE heapifyUpLoop(_, _)
heapifyUpLoop(p, index) ==
    IF index > 0
    THEN LET parent == (index - 1) \div 2
         IN IF ~mCompare(Load(p, parent), Load(p, index))
            THEN p
            ELSE heapifyUpLoop(swap(p, index, parent), parent)
    ELSE p

\* heapifyUp that stops after one exchange with the parent.
PriorityQueue_heapifyUp_Once(q, index) ==
    LET parent == (index - 1) \div 2
    IN [q EXCEPT !.mData = IF index > 0 /\ mCompare(Load(q.mData, parent), Load(q.mData, index))
                           THEN swap(q.mData, index, parent) ELSE q.mData,
                 !.log = Append(q.log, <<"heapifyUp", index>>)]

PriorityQueue_heapifyUp(q, index) ==
    [q EXCEPT !.mData = heapifyUpLoop(q.mData, index),
              !.log = Append(q.log, <<"heapifyUp", index>>)]

\* The while loop of heapifyDown.
RECURSIVE heapifyDownLoop(_, _, _)
heapifyDownLoop(p, count, index) ==
    LET left == index * 2 + 1
        right == index * 2 + 2
        l1 == IF left < count /\ mCompare(Load(p, index), Load(p, left))
              THEN left ELSE index
        largest == IF right < count /\ mCompare(Load(p, l1), Load(p, right))
                   THEN right ELSE l1
    IN IF largest = index
       THEN p
       ELSE heapifyDownLoop(swap(p, index, largest), count, largest)

PriorityQueue_heapifyDown(q, index) ==
    [q EXCEPT !.mData = heapifyDownLoop(q.mData, q.mCount, index),
              !.log = Append(q.log, <<"heapifyDown", index>>)]

\* The for loop of makeHeap: i is the loop variable before `i-- > 0`.
RECURSIVE makeHeapLoop(_, _)
makeHeapLoop(q, i) ==
    IF i > 0 THEN makeHeapLoop(PriorityQueue_heapifyDown(q, i - 1), i - 1) ELSE q

\* makeHeap that leaves out the last internal node.
PriorityQueue_makeHeap_SkipLast(q) ==
    IF q.mCount <= 1 THEN q ELSE makeHeapLoop(q, (q.mCount \div 2) - 1)

PriorityQueue_makeHeap(q) ==
    IF q.mCount <= 1 THEN q ELSE makeHeapLoop(q, q.mCount \div 2)

\* PriorityQueue(std::initializer_list<T> ilist, const Compare& comp)
PriorityQueue_FromList(ilist) ==
    PriorityQueue_makeHeap(
        [mData |-> uninitialized_move_n(ListBuf(ilist), 0, Len(ilist),
                                        Alloc(Len(ilist)), 0),
         mCount |-> Len(ilist), mCapacity |-> Len(ilist), log |-> << >>])

\* PriorityQueue(const PriorityQueue& other)
PriorityQueue_Copy(other) ==
    PriorityQueue_makeHeap(
        [mData |-> uninitialized_move_n(other.mData, 0, other.mCount,
                                        Alloc(other.mCount), 0),
         mCount |-> other.mCount, mCapacity |-> other.mCount, log |-> << >>])

PriorityQueue_clearAndDeallocate(q) ==
    IF ~q.mData.null
    THEN [q EXCEPT !.mData = NullPtr, !.mCount = 0, !.mCapacity = 0]
    ELSE q

PriorityQueue_reallocate(q, newCapacity) ==
    IF newCapacity = q.mCapacity THEN q
    ELSE IF newCapacity = 0 THEN PriorityQueue_clearAndDeallocate(q)
    ELSE LET newData == Alloc(newCapacity)
             newCount == Min(q.mCount, newCapacity)
             r == [q EXCEPT !.mData = uninitialized_move_n(q.mData, 0, newCount,
                                                           newData, 0),
                            !.mCount = newCount,
                            !.mCapacity = newCapacity]
         IN IF newCount > 1 THEN PriorityQueue_makeHeap(r) ELSE r

\* reallocate(newCapacity) in which std::uninitialized_move_n throws at
\* element k: it destroys newData[0 .. k), the handler deletes newData and
\* rethrows, and mData[0 .. k) have been moved from (moves) or copied, for a T
\* without a move constructor.
PriorityQueue_reallocate_throws(q, newCapacity, k, moves) ==
    [pq |-> [q EXCEPT !.mData = Sourced(q.mData, k, moves)],
     left |-> << >>]

PriorityQueue_ensureCapacity(q, minCapacity) ==
    IF minCapacity > q.mCapacity
    THEN LET grow == q.mCapacity + (q.mCapacity \div 2)
             newCapacity == Max(minCapacity,
                                IF q.mCapacity = 0 THEN FirstCapacity ELSE grow)
         IN PriorityQueue_reallocate(q, newCapacity)
    ELSE q

\* checkEmpty: whether it throws std::out_of_range.
PriorityQueue_checkEmpty(q) == q.mCount = 0

\* Emplace / Enqueue
PriorityQueue_Emplace(q, v) ==
    LET e == PriorityQueue_ensureCapacity(q, q.mCount + 1)
        c == [e EXCEPT !.mData = Store(e.mData, e.mCount, v),
                       !.mCount = e.mCount + 1]
    IN PriorityQueue_heapifyUp(c, c.mCount - 1)

\* Dequeue, past checkEmpty
\* Dequeue that does not sift the new root down.
PriorityQueue_Dequeue_NoSift(q) ==
    [q EXCEPT !.mData = destroy_n(swap(q.mData, 0, q.mCount - 1), q.mCount - 1, 1),
              !.mCount = q.mCount - 1]

PriorityQueue_Dequeue(q) ==
    LET swapped == swap(q.mData, 0, q.mCount - 1)
        d == [q EXCEPT !.mData = destroy_n(swapped, q.mCount - 1, 1),
                       !.mCount = q.mCount - 1]
    IN IF d.mCount > 0 THEN PriorityQueue_heapifyDown(d, 0) ELSE d

PriorityQueue_Clear(q) ==
    [q EXCEPT !.mData = destroy_n(q.mData, 0, q.mCount), !.mCount = 0]

PriorityQueue_Reserve(q, newCapacity) ==
    IF newCapacity > q.mCapacity THEN PriorityQueue_reallocate(q, newCapacity) ELSE q

PriorityQueue_Shrink(q) ==
    IF q.mCapacity > q.mCount THEN PriorityQueue_reallocate(q, q.mCount) ELSE q

\* The elements in array order, mData[0 .. mCount).
PriorityQueue_Elements(q) == [i \in 1..q.mCount |-> Load(q.mData, i - 1)]

-----------------------------------------------------------------------------
(* Stack, src/Stack.h                                                      *)

\* Stack(size_t capacity)
Stack_Stack(capacity) ==
    [mData |-> IF capacity > 0 THEN Alloc(capacity) ELSE NullPtr,
     mCount |-> 0, mCapacity |-> capacity]

\* Stack(std::initializer_list<T> ilist)
Stack_FromList(ilist) ==
    LET c == Stack_Stack(Len(ilist))
    IN [c EXCEPT !.mData = uninitialized_move_n(ListBuf(ilist), 0, Len(ilist),
                                                c.mData, 0),
                 !.mCount = Len(ilist)]

\* Stack(const Stack& other)
Stack_Copy(other) ==
    LET c == Stack_Stack(other.mCount)
    IN [c EXCEPT !.mData = uninitialized_move_n(other.mData, 0, other.mCount,
                                                c.mData, 0),
                 !.mCount = other.mCount]

Stack_clearAndDeallocate(s) ==
    IF ~s.mData.null
    THEN [mData |-> NullPtr, mCount |-> 0, mCapacity |-> 0]
    ELSE s

Stack_reallocate(s, newCapacity) ==
    IF newCapacity = s.mCapacity THEN s
    ELSE IF newCapacity = 0 THEN Stack_clearAndDeallocate(s)
    ELSE LET newData == Alloc(newCapacity)
             newCount == Min(s.mCount, newCapacity)
         IN [mData |-> uninitialized_move_n(s.mData, 0, newCount, newData, 0),
             mCount |-> newCount,
             mCapacity |-> newCapacity]

Stack_ensureCapacity(s, minCapacity) ==
    IF minCapacity > s.mCapacity
    THEN LET grow == s.mCapacity + (s.mCapacity \div 2)
             newCapacity == Max(minCapacity,
                                IF s.mCapacity = 0 THEN FirstCapacity ELSE grow)
         IN Stack_reallocate(s, newCapacity)
    ELSE s

\* checkEmpty: whether it throws std::out_of_range.
\* checkEmpty that tests the capacity in place of the count.
Stack_checkEmpty_Capacity(s) == s.mCapacity = 0

Stack_checkEmpty(s) == s.mCount = 0

\* Emplace / Push
Stack_Emplace(s, v) ==
    LET e == Stack_ensureCapacity(s, s.mCount + 1)
    IN [e EXCEPT !.mData = Store(e.mData, e.mCount, v),
                 !.mCount = e.mCount + 1]

\* Peek that reads the bottom of the stack.
Stack_Peek_Bottom(s) == Load(s.mData, 0)

\* Peek, past checkEmpty
Stack_Peek(s) == Load(s.mData, s.mCount - 1)

\* Pop, past checkEmpty
Stack_Pop(s) ==
    [s EXCEPT !.mCount = s.mCount - 1,
              !.mData = destroy_n(s.mData, s.mCount - 1, 1)]

Stack_Clear(s) ==
    [s EXCEPT !.mData = destroy_n(s.mData, 0, s.mCount), !.mCount = 0]

Stack_Reserve(s, newCapacity) ==
    IF newCapacity > s.mCapacity THEN Stack_reallocate(s, newCapacity) ELSE s

Stack_Shrink(s) ==
    IF s.mCapacity > s.mCount THEN Stack_reallocate(s, s.mCount) ELSE s

\* The elements bottom to top, mData[0 .. mCount), as operator== reads them.
Stack_Elements(s) == [i \in 1..s.mCount |-> Load(s.mData, i - 1)]

-----------------------------------------------------------------------------
(* Vector, src/Vector.h                                                    *)
(* A method that throws std::out_of_range is the pair of a predicate       *)
(* (..._throws) and of what it does past its check.                        *)

\* AllocTraits::construct(_allocator, p + i, v)
construct(p, i, v) == Store(p, i, v)
\* p[i] = v
assign(p, i, v) == Store(p, i, v)
\* AllocTraits::destroy(_allocator, p + i)
destroy(p, i) == destroy_n(p, i, 1)

\* std::move(p + first, p + last, p + dest) within one buffer: one element
\* after the other, lowest first.
RECURSIVE move(_, _, _, _)
move(p, first, last, dest) ==
    IF first >= last THEN p
    ELSE move(assign(p, Wrap(dest), Load(p, first)), first + 1, last, dest + 1)

\* std::uninitialized_move(p + first, p + last, p + dest) within one buffer:
\* one element after the other, lowest first.
RECURSIVE uninitialized_move(_, _, _, _)
uninitialized_move(p, first, last, dest) ==
    IF first >= last THEN p
    ELSE uninitialized_move(construct(p, dest, Load(p, first)),
                            first + 1, last, dest + 1)

\* std::uninitialized_move of a type the library moves as one block
\* (memmove): every destination slot receives the value its source had.
uninitialized_move_block(p, first, last, dest) ==
    uninitialized_move_n(p, first, last - first, p, dest)

\* std::uninitialized_move requires that source and destination do not
\* overlap. Where they do the call is undefined: it moves element by element
\* or as one block.
MoveKinds == {"elementwise", "block"}
uninitialized_move_as(kind, p, first, last, dest) ==
    IF kind = "block" THEN uninitialized_move_block(p, first, last, dest)
    ELSE uninitialized_move(p, first, last, dest)

\* A shift to the right that copies lowest first.
move_backward_LowestFirst(p, first, last, d_last) ==
    move(p, first, last, d_last - (last - first))

\* std::move_backward(p + first, p + last, p + d_last): highest first.
RECURSIVE move_backward(_, _, _, _)
move_backward(p, first, last, d_last) ==
    IF first >= last THEN p
    ELSE move_backward(assign(p, d_last - 1, Load(p, last - 1)),
                       first, last - 1, d_last - 1)

\* std::fill_n(p + first, n, v) and std::uninitialized_fill_n
fill_n(p, first, n, v) ==
    [p EXCEPT !.slot = [k \in 1..Len(p.slot) |->
        IF k - 1 >= first /\ k - 1 < first + n THEN v ELSE p.slot[k]]]

\* T(): the value-initialized element.
T_default == CHOOSE v \in Elems : \A w \in Elems : v <= w

\* Vector(const Allocator&)
Vector_Vector == [_data |-> NullPtr, _size |-> 0, _capacity |-> 0]

\* Vector(size_t count, const T& value, const Allocator&)
Vector_Fill(count, value) ==
    [_data |-> fill_n(Alloc(count), 0, count, value), _size |-> count, _capacity |-> count]

\* Vector(std::initializer_list<T> init, const Allocator&)
Vector_FromList(init) ==
    [_data |-> uninitialized_move_n(ListBuf(init), 0, Len(init), Alloc(Len(init)), 0),
     _size |-> Len(init), _capacity |-> Len(init)]

\* The elements, _data[0 .. _size), as operator== reads them.
Vector_Elements(v) == [i \in 1..v._size |-> Load(v._data, i - 1)]

Vector_destroy_elements(v) == destroy_n(v._data, 0, v._size)

Vector_reallocate(v, new_cap) ==
    LET new_data == Alloc(new_cap)
        new_size == Min(v._size, new_cap)
    IN [_data |-> uninitialized_move_n(v._data, 0, new_size, new_data, 0),
        _size |-> new_size,
        _capacity |-> new_cap]

\* reallocate(new_cap) in which the construction of new_data[k] throws:
\* new_data[0 .. k) are constructed and nothing catches the exception, so
\* the assignments to _data, _size and _capacity are not reached and new_data
\* is neither emptied nor deallocated. std::move_if_noexcept copies when T
\* can be copied and moves when it cannot (moves).
Vector_reallocate_throws(v, new_cap, k, moves) ==
    [vec |-> [v EXCEPT !._data = Sourced(v._data, k, moves)],
     left |-> <<uninitialized_move_n(v._data, 0, k, Alloc(new_cap), 0)>>]

\* reserve without its test of the capacity.
Vector_reserve_Always(v, new_cap) == Vector_reallocate(v, new_cap)

Vector_reserve(v, new_cap) ==
    IF new_cap > v._capacity THEN Vector_reallocate(v, new_cap) ELSE v

Vector_shrink_to_fit(v) ==
    IF v._size < v._capacity THEN Vector_reallocate(v, v._size) ELSE v

Vector_clear(v) == [v EXCEPT !._data = Vector_destroy_elements(v), !._size = 0]

\* at(pos)
Vector_at_throws(v, pos) == pos >= v._size

\* A growth step that adds one slot in place of doubling.
Vector_grow_ByOne(v) ==
    IF v._size = v._capacity THEN Vector_reserve(v, v._capacity + 1) ELSE v

\* The growth step of insert, emplace, push_back and emplace_back.
Vector_grow(v) ==
    IF v._size = v._capacity
    THEN Vector_reserve(v, IF v._capacity = 0 THEN 1 ELSE v._capacity * 2)
    ELSE v

\* insert(size_t pos, const T& value)
Vector_insert_throws(v, pos) == pos > v._size

Vector_insert(v, pos, value) ==
    LET g == Vector_grow(v)
    IN IF pos < g._size
       THEN LET c == construct(g._data, g._size, Load(g._data, g._size - 1))
                m == move_backward(c, pos, g._size, g._size + 1)
            IN [g EXCEPT !._data = assign(m, pos, value), !._size = g._size + 1]
       ELSE [g EXCEPT !._data = construct(g._data, pos, value), !._size = g._size + 1]

\* The growth step of insert(pos, count, value) and insert(pos, ilist).
Vector_growBy(v, count) ==
    IF v._size + count > v._capacity
    THEN Vector_reserve(v, Max(v._capacity * 2, v._size + count))
    ELSE v

\* Whether insert(pos, count, ...) moves [pos, _size) onto a range that
\* overlaps it.
Vector_insert_overlaps(v, pos, count) == count > 0 /\ pos + count < v._size

\* insert(size_t pos, size_t count, const T& value); kind is the way its
\* uninitialized_move runs.
Vector_insertN_as(kind, v, pos, count, value) ==
    IF count = 0 THEN v
    ELSE LET g == Vector_growBy(v, count)
             elems_to_move == g._size - pos
             m == IF elems_to_move > 0
                  THEN uninitialized_move_as(kind, g._data, g._size - elems_to_move,
                                             g._size, g._size + count - elems_to_move)
                  ELSE g._data
         IN [g EXCEPT !._data = fill_n(m, pos, count, value),
                      !._size = g._size + count]

Vector_insertN(v, pos, count, value) ==
    Vector_insertN_as("elementwise", v, pos, count, value)

\* std::copy(ilist.begin(), ilist.end(), p + dest)
copy_list(p, ilist, dest) ==
    uninitialized_move_n(ListBuf(ilist), 0, Len(ilist), p, dest)

\* insert(size_t pos, std::initializer_list<T> ilist); kind is the way its
\* uninitialized_move runs.
Vector_insertList_as(kind, v, pos, ilist) ==
    LET count == Len(ilist)
    IN IF count = 0 THEN v
       ELSE LET g == Vector_growBy(v, count)
                elems_to_move == g._size - pos
                m == IF elems_to_move > 0
                     THEN uninitialized_move_as(kind, g._data, pos, g._size, pos + count)
                     ELSE g._data
            IN [g EXCEPT !._data = copy_list(m, ilist, pos),
                         !._size = g._size + count]

Vector_insertList(v, pos, ilist) ==
    Vector_insertList_as("elementwise", v, pos, ilist)

\* emplace(size_t pos, Args&&... args)
Vector_emplace(v, pos, value) ==
    LET g == Vector_grow(v)
    IN IF pos < g._size
       THEN LET c == construct(g._data, g._size, Load(g._data, g._size - 1))
                m == move_backward(c, pos, g._size, g._size + 1)
            IN [g EXCEPT !._data = construct(destroy(m, pos), pos, value),
                         !._size = g._size + 1]
       ELSE [g EXCEPT !._data = construct(g._data, pos, value), !._size = g._size + 1]

\* pop_back(), past its assert
Vector_pop_back(v) ==
    [v EXCEPT !._size = v._size - 1, !._data = destroy(v._data, v._size - 1)]

\* erase(size_t pos)
\* A check of erase(pos) that lets pos = _size through.
Vector_erase_throws_Past(v, pos) == pos > v._size

Vector_erase_throws(v, pos) == pos >= v._size

Vector_erase(v, pos) ==
    Vector_pop_back([v EXCEPT !._data = move(v._data, pos + 1, v._size, pos)])

\* erase(size_t first, size_t last)
Vector_eraseRange_throws(v, first, last) == first > last \/ last > v._size

\* erase(first, last) that drops the tail without shifting it.
Vector_eraseRange_NoShift(v, first, last) ==
    IF first = last THEN v
    ELSE [v EXCEPT !._data = destroy_n(v._data, v._size - (last - first), last - first),
                   !._size = v._size - (last - first)]

Vector_eraseRange(v, first, last) ==
    IF first = last THEN v
    ELSE LET num_to_erase == last - first
             num_to_move == v._size - last
             m == IF num_to_move > 0 THEN move(v._data, last, v._size, first)
                  ELSE v._data
         IN [v EXCEPT !._data = destroy_n(m, v._size - num_to_erase, num_to_erase),
                      !._size = v._size - num_to_erase]

\* push_back(const T& value), emplace_back(Args&&... args)
\* push_back that does not grow a full buffer.
Vector_push_back_NoGrow(v, value) ==
    [v EXCEPT !._data = construct(v._data, v._size, value), !._size = v._size + 1]

Vector_push_back(v, value) ==
    LET g == Vector_grow(v)
    IN [g EXCEPT !._data = construct(g._data, g._size, value), !._size = g._size + 1]

\* resize(size_t count)
Vector_resize(v, count) ==
    IF count < v._size
    THEN [Vector_eraseRange(v, count, v._size) EXCEPT !._size = count]
    ELSE IF count > v._size
    THEN LET r == Vector_reserve(v, count)
         IN [r EXCEPT !._data = fill_n(r._data, r._size, count - r._size, T_default),
                      !._size = count]
    ELSE v

\* resize(size_t count, const T& value)
Vector_resizeWith(v, count, value) ==
    IF count < v._size THEN Vector_eraseRange(v, count, v._size)
    ELSE IF count > v._size THEN Vector_insertN(v, v._size, count - v._size, value)
    ELSE v

\* assign(size_t count, const T& value)
Vector_assign(v, count, value) ==
    LET c == Vector_clear(v)
    IN IF count > c._capacity
       THEN Vector_Fill(count, value)
       ELSE [c EXCEPT !._data = fill_n(c._data, 0, count, value), !._size = count]

\* assign(size_t first, size_t last, const T& value)
Vector_assignRange_throws(v, first, last) == first > last \/ last > v._size

Vector_assignRange(v, first, last, value) ==
    IF first = last THEN v
    ELSE [v EXCEPT !._data = fill_n(v._data, first, last - first, value)]

\* assign(std::initializer_list<T> ilist)
Vector_assignList(v, ilist) ==
    LET c == Vector_clear(v)
    IN IF Len(ilist) > c._capacity
       THEN Vector_FromList(ilist)
       ELSE [c EXCEPT !._data = copy_list(c._data, ilist, 0), !._size = Len(ilist)]

-----------------------------------------------------------------------------
(* Vector, src/unnamed/part_001                                            *)

\* Vector(const Allocator&)
Vector2_Vector == [_data |-> NullPtr, _size |-> 0, _capacity |-> 0]

\* Vector(size_t count, const T& value, const Allocator&)
Vector2_Fill(count, value) ==
    [_data |-> IF count > 0 THEN fill_n(Alloc(count), 0, count, value) ELSE NullPtr,
     _size |-> count, _capacity |-> count]

\* Vector(std::initializer_list<T> init, const Allocator&)
Vector2_FromList(init) ==
    [_data |-> IF Len(init) > 0
               THEN uninitialized_move_n(ListBuf(init), 0, Len(init), Alloc(Len(init)), 0)
               ELSE NullPtr,
     _size |-> Len(init), _capacity |-> Len(init)]

Vector2_destroy_elements(v) == destroy_n(v._data, 0, v._size)

Vector2_reallocate(v, new_cap) ==
    LET new_data == Alloc(new_cap)
        new_size == Min(v._size, new_cap)
    IN [_data |-> uninitialized_move_n(v._data, 0, new_size, new_data, 0),
        _size |-> new_size,
        _capacity |-> new_cap]

\* reallocate(new_cap) in which the construction of new_data[k] throws, as
\* in src/Vector.h.
Vector2_reallocate_throws(v, new_cap, k, moves) ==
    [vec |-> [v EXCEPT !._data = Sourced(v._data, k, moves)],
     left |-> <<uninitialized_move_n(v._data, 0, k, Alloc(new_cap), 0)>>]

Vector2_reserve(v, new_cap) ==
    IF new_cap > v._capacity THEN Vector2_reallocate(v, new_cap) ELSE v

Vector2_shrink_to_fit(v) ==
    IF v._size < v._capacity THEN Vector2_reallocate(v, v._size) ELSE v

Vector2_clear(v) == [v EXCEPT !._data = Vector2_destroy_elements(v), !._size = 0]

\* at(pos)
Vector2_at_throws(v, pos) == pos >= v._size

\* The growth step of emplace and emplace_back.
Vector2_grow(v) ==
    IF v._size = v._capacity
    THEN Vector2_reserve(v, IF v._capacity = 0 THEN 1 ELSE v._capacity * 2)
    ELSE v

\* emplace(size_t pos, Args&&... args); insert(pos, value) forwards to it.
Vector2_emplace_throws(v, pos) == pos > v._size

Vector2_emplace(v, pos, value) ==
    LET g == Vector2_grow(v)
        m == move_backward(g._data, pos, g._size, g._size + 1)
    IN [g EXCEPT !._data = construct(m, pos, value), !._size = g._size + 1]

\* The growth step of insert(pos, count, value) and insert(pos, ilist).
Vector2_growTo(v, new_size) ==
    IF new_size > v._capacity
    THEN Vector2_reserve(v, Max(v._capacity * 2, new_size))
    ELSE v

\* insert(size_t pos, size_t count, const T& value)
Vector2_insertN(v, pos, count, value) ==
    IF count = 0 THEN v
    ELSE LET new_size == v._size + count
             g == Vector2_growTo(v, new_size)
             m == move_backward(g._data, pos, g._size, new_size)
         IN [g EXCEPT !._data = fill_n(m, pos, count, value), !._size = new_size]

\* insert(size_t pos, std::initializer_list<T> ilist)
Vector2_insertList(v, pos, ilist) ==
    LET count == Len(ilist)
    IN IF count = 0 THEN v
       ELSE LET new_size == v._size + count
                g == Vector2_growTo(v, new_size)
                m == move_backward(g._data, pos, g._size, new_size)
            IN [g EXCEPT !._data = copy_list(m, ilist, pos), !._size = new_size]

\* erase(size_t pos)
Vector2_erase_throws(v, pos) == pos >= v._size

Vector2_erase(v, pos) ==
    [v EXCEPT !._data = move(destroy(v._data, pos), pos + 1, v._size, pos),
              !._size = v._size - 1]

\* erase(size_t pos, size_t count)
\* erase(size_t pos, size_t count): its check adds pos and count as size_t.
Vector2_eraseN_throws(v, pos, count) == Wrap(pos + count) > v._size

\* Whether erase(pos, count) passes its check with a sum that has wrapped: it
\* then addresses _data + pos + i outside of the storage.
Vector2_eraseN_wraps(v, pos, count) ==
    pos + count > SIZE_MAX /\ ~Vector2_eraseN_throws(v, pos, count)

Vector2_eraseN(v, pos, count) ==
    LET destroyed == [v._data EXCEPT !.slot = [k \in 1..Len(v._data.slot) |->
                         IF \E i \in 0..(count - 1) : Wrap(pos + i) = k - 1
                         THEN Raw ELSE v._data.slot[k]]]
    IN [v EXCEPT !._data = move(destroyed, Wrap(pos + count), v._size, pos),
                 !._size = Wrap(v._size - count)]

\* emplace_back(Args&&... args); push_back forwards to it.
Vector2_emplace_back(v, value) ==
    LET g == Vector2_grow(v)
    IN [g EXCEPT !._data = construct(g._data, g._size, value), !._size = g._size + 1]

\* pop_back(), past its assert
Vector2_pop_back(v) ==
    [v EXCEPT !._size = v._size - 1, !._data = destroy(v._data, v._size - 1)]

\* resize(size_t count, const T& value); resize(size_t count) is this with T().
Vector2_resizeWith(v, count, value) ==
    IF count < v._size
    THEN [Vector2_eraseN(v, count, v._size - count) EXCEPT !._size = count]
    ELSE IF count > v._size
    THEN LET r == Vector2_reserve(v, count)
         IN [r EXCEPT !._data = fill_n(r._data, r._size, count - r._size, value),
                      !._size = count]
    ELSE v

Vector2_resize(v, count) == Vector2_resizeWith(v, count, T_default)

\* assign(size_t count, const T& value)
Vector2_assign(v, count, value) ==
    LET c == Vector2_clear(v)
    IN IF count > c._capacity
       THEN Vector2_Fill(count, value)
       ELSE [c EXCEPT !._data = fill_n(c._data, 0, count, value), !._size = count]

\* assign(std::initializer_list<T> ilist)
Vector2_assignList(v, ilist) ==
    LET c == Vector2_clear(v)
    IN IF Len(ilist) > c._capacity
       THEN Vector2_FromList(ilist)
       ELSE [c EXCEPT !._data = copy_list(c._data, ilist, 0), !._size = Len(ilist)]

-----------------------------------------------------------------------------
(* The Queue under test: one method call per step.                         *)

QueueImpls == {"part_002", "LinkedList.h"}

\* The count, capacity and front index of the object under test.
Snapshot ==
    CASE class = "Queue" ->
           [count |-> queue.mCount, capacity |-> queue.mCapacity, front |-> queue.mFront]
      [] class = "PriorityQueue" ->
           [count |-> pq.mCount, capacity |-> pq.mCapacity, front |-> 0]
      [] class = "Stack" ->
           [count |-> stack.mCount, capacity |-> stack.mCapacity, front |-> 0]
      [] class = "Vector" ->
           [count |-> vec._size, capacity |-> vec._capacity, front |-> 0]
      [] class = "List" ->
           [count |-> list._size, capacity |-> 0, front |-> 0]
      [] class = "LinkedList" ->
           [count |-> list.A.mCount, capacity |-> list.B.mCount, front |-> 0]
      [] class = "Lists" ->
           [count |-> list._size, capacity |-> list.sizes.B, front |-> 0]
      [] class \in {"Queues", "Stacks", "Vectors", "PriorityQueues"} ->
           [count |-> 0, capacity |-> 0, front |-> 0]

\* The last call, the error it signalled, the value it returned, and what the
\* object was when it was made.
\* The call o(a) has signalled e and returned r.
Returned(o, a, e, r) ==
    op' = o /\ arg' = a /\ err' = e /\ ret' = r /\ pre' = Snapshot
\* The same of a call that leaves no storage behind.
CalledWith(o, a, e, r) == Returned(o, a, e, r) /\ orphan' = orphan
\* A call whose arguments the history does not keep.
Called(o, e, r) == CalledWith(o, << >>, e, r)

\* A call on the object of class c leaves the objects of the other classes
\* alone.
Alone(c) ==
    /\ UNCHANGED <<class, impl>>
    /\ IF c \in {"Queue", "Queues"} THEN TRUE ELSE UNCHANGED queue
    /\ IF c \in {"PriorityQueue", "PriorityQueues"} THEN TRUE ELSE UNCHANGED pq
    /\ IF c \in {"Stack", "Stacks"} THEN TRUE ELSE UNCHANGED stack
    /\ IF c \in {"Vector", "Vectors"} THEN TRUE ELSE UNCHANGED vec
    /\ IF c \in {"List", "LinkedList", "Lists"} THEN TRUE ELSE UNCHANGED list

\* The same of a call that takes no second object of its class.
Others(c) == Alone(c) /\ UNCHANGED rhs

\* No call is followed past a store through a null pointer.
Running(c) == class = c /\ ub = "none"

Q_checkEmpty(q) ==
    IF impl = "part_002" THEN Queue_checkEmpty(q) ELSE Queue2_checkEmpty(q)
Q_Emplace(q, v) ==
    IF impl = "part_002" THEN Queue_Emplace(q, v) ELSE Queue2_Emplace(q, v)
Q_ensureCapacity(q, n) ==
    IF impl = "part_002" THEN Queue_ensureCapacity(q, n) ELSE Queue2_ensureCapacity(q, n)

InitQueue ==
    /\ class = "Queue"
    /\ impl \in QueueImpls
    /\ \E c \in 0..MaxInitCap :
          queue = IF impl = "part_002" THEN Queue_Queue(c) ELSE Queue2_Queue(c)
    /\ pq = Unused /\ stack = Unused /\ vec = Unused /\ list = Unused
    /\ abs = << >>
    /\ op = "new" /\ err = "none" /\ ret = Raw /\ ub = "none" /\ arg = << >> /\ orphan = << >>
    /\ rhs = Unused
    /\ pre = [count |-> 0, capacity |-> 0, front |-> 0]

\* Enqueue(v) / Emplace(v) whose construct_at targets a slot of the buffer.
Queue_Enqueue(v) ==
    /\ Running("Queue") /\ queue.mCount < MaxCount
    /\ LET e == Q_ensureCapacity(queue, queue.mCount + 1)
       IN InBuf(e.mData, e.mRear)
    /\ queue' = Q_Emplace(queue, v)
    /\ abs' = Append(abs, v)
    /\ Called("Enqueue", "none", Raw)
    /\ UNCHANGED ub /\ Others("Queue")

\* Enqueue(v) / Emplace(v) whose construct_at targets no storage (mData is
\* nullptr): undefined behaviour.  Either the store traps and the call never
\* returns, or it is lost and the call goes on to advance mRear and mCount.
Queue_EnqueueNull(v) ==
    /\ Running("Queue") /\ queue.mCount < MaxCount
    /\ LET e == Q_ensureCapacity(queue, queue.mCount + 1)
       IN ~InBuf(e.mData, e.mRear)
    /\ \/ queue' = queue /\ abs' = abs
       \/ queue' = Q_Emplace(queue, v) /\ abs' = Append(abs, v)
    /\ Called("Enqueue", "none", Raw)
    /\ ub' = "null store" /\ Others("Queue")

Queue_DequeueOp ==
    /\ Running("Queue")
    /\ IF Q_checkEmpty(queue)
       THEN /\ Called("Dequeue", "Empty", Raw)
            /\ UNCHANGED <<queue, abs>>
       ELSE /\ queue' = IF impl = "part_002" THEN Queue_Dequeue(queue)
                        ELSE Queue2_Dequeue(queue)
            /\ abs' = RemoveFirst(abs)
            /\ Called("Dequeue", "none", Raw)
    /\ UNCHANGED ub /\ Others("Queue")

\* Peek: checkEmpty, then mData[mFront].
Queue_Peek ==
    /\ Running("Queue")
    /\ IF Q_checkEmpty(queue)
       THEN Called("Peek", "Empty", Raw)
       ELSE Called("Peek", "none", Load(queue.mData, queue.mFront))
    /\ UNCHANGED <<queue, abs, ub>> /\ Others("Queue")

Queue_ClearOp ==
    /\ Running("Queue")
    /\ queue' = IF impl = "part_002" THEN Queue_Clear(queue) ELSE Queue2_Clear(queue)
    /\ abs' = << >>
    /\ Called("Clear", "none", Raw)
    /\ UNCHANGED ub /\ Others("Queue")

Queue_ReserveOp(n) ==
    /\ Running("Queue")
    /\ queue' = IF impl = "part_002" THEN Queue_Reserve(queue, n)
                ELSE Queue2_Reserve(queue, n)
    /\ CalledWith("Reserve", <<n>>, "none", Raw)
    /\ UNCHANGED <<abs, ub>> /\ Others("Queue")

Queue_ShrinkOp ==
    /\ Running("Queue")
    /\ queue' = IF impl = "part_002" THEN Queue_Shrink(queue) ELSE Queue2_Shrink(queue)
    /\ Called("Shrink", "none", Raw)
    /\ UNCHANGED <<abs, ub>> /\ Others("Queue")

\* Queue b(a): the run goes on with the copy b.
Queue_CopyOp ==
    /\ Running("Queue")
    /\ queue' = IF impl = "part_002" THEN Queue_Copy(queue) ELSE Queue2_Copy(queue)
    /\ Called("Copy", "none", Raw)
    /\ UNCHANGED <<abs, ub>> /\ Others("Queue")

\* Queue b(std::move(a)): b takes the five fields of a as they are; the run
\* goes on with b.
Queue_MoveOp ==
    /\ Running("Queue")
    /\ queue' = queue
    /\ Called("Move", "none", Raw)
    /\ UNCHANGED <<abs, ub>> /\ Others("Queue")

\* Queue b(std::move(a)): the run goes on with the moved-from a.
Queue_MovedFromOp ==
    /\ Running("Queue")
    /\ queue' = Queue_Moved
    /\ abs' = << >>
    /\ Called("MovedFrom", "none", Raw)
    /\ UNCHANGED ub /\ Others("Queue")

NextQueue ==
    \/ \E v \in Vals : Queue_Enqueue(v)
    \/ \E v \in Vals : Queue_EnqueueNull(v)
    \/ Queue_DequeueOp
    \/ Queue_Peek
    \/ Queue_ClearOp
    \/ \E n \in 0..MaxReserve : Queue_ReserveOp(n)
    \/ Queue_ShrinkOp
    \/ Queue_CopyOp
    \/ Queue_MoveOp
    \/ Queue_MovedFromOp

SpecQueue == InitQueue /\ [][NextQueue]_vars

-----------------------------------------------------------------------------
(* The PriorityQueue under test.  abs holds the elements the calls so far   *)
(* should have left, highest first.                                        *)

\* s with v put in after the elements that are not below it.
RECURSIVE InsertByRank(_, _)
InsertByRank(s, v) ==
    IF s = << >> \/ Head(s) < v
    THEN <<v>> \o s
    ELSE <<Head(s)>> \o InsertByRank(Tail(s), v)

RECURSIVE ByRank(_)
ByRank(s) == IF s = << >> THEN << >> ELSE InsertByRank(ByRank(Tail(s)), Head(s))

\* The object as a method call finds it: no heapify call made yet.
PQ == [pq EXCEPT !.log = << >>]

InitPQ ==
    /\ class = "PriorityQueue"
    /\ impl = "PriorityQueue.h"
    /\ \/ \E c \in 0..MaxInitCap :
             pq = PriorityQueue_PriorityQueue(c) /\ abs = << >> /\ op = "new"
       \/ \E l \in SeqsUpTo(Keys, MaxCount) :
             pq = PriorityQueue_FromList(l) /\ abs = ByRank(l) /\ op = "list"
    /\ queue = Unused /\ stack = Unused /\ vec = Unused /\ list = Unused
    /\ err = "none" /\ ret = Raw /\ ub = "none" /\ arg = << >> /\ orphan = << >>
    /\ rhs = Unused
    /\ pre = [count |-> 0, capacity |-> 0, front |-> 0]

PQ_Enqueue(v) ==
    /\ Running("PriorityQueue") /\ pq.mCount < MaxCount
    /\ pq' = PriorityQueue_Emplace(PQ, v)
    /\ abs' = InsertByRank(abs, v)
    /\ Called("Enqueue", "none", Raw)
    /\ UNCHANGED ub /\ Others("PriorityQueue")

PQ_Dequeue ==
    /\ Running("PriorityQueue")
    /\ IF PriorityQueue_checkEmpty(pq)
       THEN /\ Called("Dequeue", "Empty", Raw)
            /\ UNCHANGED <<pq, abs>>
       ELSE /\ pq' = PriorityQueue_Dequeue(PQ)
            /\ abs' = RemoveFirst(abs)
            /\ Called("Dequeue", "none", Raw)
    /\ UNCHANGED ub /\ Others("PriorityQueue")

\* Peek: checkEmpty, then mData[0].
PQ_Peek ==
    /\ Running("PriorityQueue")
    /\ IF PriorityQueue_checkEmpty(pq)
       THEN Called("Peek", "Empty", Raw)
       ELSE Called("Peek", "none", Load(pq.mData, 0))
    /\ UNCHANGED <<pq, abs, ub>> /\ Others("PriorityQueue")

PQ_Clear ==
    /\ Running("PriorityQueue")
    /\ pq' = PriorityQueue_Clear(PQ)
    /\ abs' = << >>
    /\ Called("Clear", "none", Raw)
    /\ UNCHANGED ub /\ Others("PriorityQueue")

PQ_Reserve(n) ==
    /\ Running("PriorityQueue")
    /\ pq' = PriorityQueue_Reserve(PQ, n)
    /\ Called("Reserve", "none", Raw)
    /\ UNCHANGED <<abs, ub>> /\ Others("PriorityQueue")

PQ_Shrink ==
    /\ Running("PriorityQueue")
    /\ pq' = PriorityQueue_Shrink(PQ)
    /\ Called("Shrink", "none", Raw)
    /\ UNCHANGED <<abs, ub>> /\ Others("PriorityQueue")

\* PriorityQueue b(a): the run goes on with the copy b.
PQ_Copy ==
    /\ Running("PriorityQueue")
    /\ pq' = PriorityQueue_Copy(pq)
    /\ Called("Copy", "none", Raw)
    /\ UNCHANGED <<abs, ub>> /\ Others("PriorityQueue")

\* operator=(std::initializer_list<T>): PriorityQueue temp(ilist); Swap(temp).
PQ_AssignList(l) ==
    /\ Running("PriorityQueue")
    /\ pq' = PriorityQueue_FromList(l)
    /\ abs' = ByRank(l)
    /\ Called("list", "none", Raw)
    /\ UNCHANGED ub /\ Others("PriorityQueue")

\* Enqueue(v) on a full buffer whose reallocation throws while it moves
\* element k.
PQ_EnqueueThrows(v, k, moves) ==
    /\ Running("PriorityQueue")
    /\ pq.mCount = pq.mCapacity /\ k \in 0..(pq.mCount - 1)
    /\ LET grow == pq.mCapacity + (pq.mCapacity \div 2)
           newCapacity == Max(pq.mCount + 1,
                              IF pq.mCapacity = 0 THEN FirstCapacity ELSE grow)
           r == PriorityQueue_reallocate_throws(PQ, newCapacity, k, moves)
       IN pq' = r.pq /\ orphan' = orphan \o r.left
    /\ Returned("Enqueue", <<v>>, "Thrown", Raw)
    /\ UNCHANGED <<abs, ub>> /\ Others("PriorityQueue")

\* The PriorityQueue under Enqueue and Dequeue with elements whose move
\* constructor may throw.
NextPQThrow ==
    \/ \E v \in Keys : PQ_Enqueue(v)
    \/ PQ_Dequeue
    \/ \E v \in Keys, k \in 0..MaxCount, moves \in BOOLEAN : PQ_EnqueueThrows(v, k, moves)

NextPQ ==
    \/ \E v \in Keys : PQ_Enqueue(v)
    \/ PQ_Dequeue
    \/ PQ_Peek
    \/ PQ_Clear
    \/ \E n \in 0..MaxReserve : PQ_Reserve(n)
    \/ PQ_Shrink
    \/ PQ_Copy
    \/ \E l \in SeqsUpTo(Keys, MaxList) : PQ_AssignList(l)

SpecPQ == InitPQ /\ [][NextPQ]_vars

SpecPQThrow == InitPQ /\ [][NextPQThrow]_vars

-----------------------------------------------------------------------------
(* The Stack under test.                                                   *)

InitStack ==
    /\ class = "Stack"
    /\ impl = "Stack.h"
    /\ \E c \in 0..MaxInitCap : stack = Stack_Stack(c)
    /\ queue = Unused /\ pq = Unused /\ vec = Unused /\ list = Unused
    /\ abs = << >>
    /\ op = "new" /\ err = "none" /\ ret = Raw /\ ub = "none" /\ arg = << >> /\ orphan = << >>
    /\ rhs = Unused
    /\ pre = [count |-> 0, capacity |-> 0, front |-> 0]

Stack_Push(v) ==
    /\ Running("Stack") /\ stack.mCount < MaxCount
    /\ stack' = Stack_Emplace(stack, v)
    /\ abs' = Append(abs, v)
    /\ Called("Push", "none", Raw)
    /\ UNCHANGED ub /\ Others("Stack")

Stack_PopOp ==
    /\ Running("Stack")
    /\ IF Stack_checkEmpty(stack)
       THEN /\ Called("Pop", "Empty", Raw)
            /\ UNCHANGED <<stack, abs>>
       ELSE /\ stack' = Stack_Pop(stack)
            /\ abs' = RemoveLast(abs)
            /\ Called("Pop", "none", Raw)
    /\ UNCHANGED ub /\ Others("Stack")

Stack_PeekOp ==
    /\ Running("Stack")
    /\ IF Stack_checkEmpty(stack)
       THEN Called("Peek", "Empty", Raw)
       ELSE Called("Peek", "none", Stack_Peek(stack))
    /\ UNCHANGED <<stack, abs, ub>> /\ Others("Stack")

Stack_ClearOp ==
    /\ Running("Stack")
    /\ stack' = Stack_Clear(stack)
    /\ abs' = << >>
    /\ Called("Clear", "none", Raw)
    /\ UNCHANGED ub /\ Others("Stack")

Stack_ReserveOp(n) ==
    /\ Running("Stack")
    /\ stack' = Stack_Reserve(stack, n)
    /\ Called("Reserve", "none", Raw)
    /\ UNCHANGED <<abs, ub>> /\ Others("Stack")

Stack_ShrinkOp ==
    /\ Running("Stack")
    /\ stack' = Stack_Shrink(stack)
    /\ Called("Shrink", "none", Raw)
    /\ UNCHANGED <<abs, ub>> /\ Others("Stack")

\* Stack b(a): the run goes on with the copy b.
Stack_CopyOp ==
    /\ Running("Stack")
    /\ stack' = Stack_Copy(stack)
    /\ Called("Copy", "none", Raw)
    /\ UNCHANGED <<abs, ub>> /\ Others("Stack")

\* operator=(std::initializer_list<T>): Stack temp(ilist); Swap(temp).
Stack_AssignList(l) ==
    /\ Running("Stack")
    /\ stack' = Stack_FromList(l)
    /\ abs' = l
    /\ Called("list", "none", Raw)
    /\ UNCHANGED ub /\ Others("Stack")

NextStack ==
    \/ \E v \in Vals : Stack_Push(v)
    \/ Stack_PopOp
    \/ Stack_PeekOp
    \/ Stack_ClearOp
    \/ \E n \in 0..MaxReserve : Stack_ReserveOp(n)
    \/ Stack_ShrinkOp
    \/ Stack_CopyOp
    \/ \E l \in SeqsUpTo(Vals, MaxList) : Stack_AssignList(l)

SpecStack == InitStack /\ [][NextStack]_vars

-----------------------------------------------------------------------------
(* The Vector under test.                                                  *)

VectorImpls == {"Vector.h", "part_001"}

\* Abstract sequences: s with t put in before index pos (from 0), and s less
\* its elements at the indices first .. last - 1.
InsertAt(s, pos, t) == SubSeq(s, 1, pos) \o t \o SubSeq(s, pos + 1, Len(s))
RemoveRange(s, first, last) == SubSeq(s, 1, first) \o SubSeq(s, last + 1, Len(s))
Repeat(n, v) == [k \in 1..n |-> v]

\* Positions and counts passed to erase(pos, count): the small ones and the
\* largest of size_t.
SizeArgs == 0..(MaxSize + 1) \cup {SIZE_MAX - 1, SIZE_MAX}

V_push_back(v, x) ==
    IF impl = "Vector.h" THEN Vector_push_back(v, x) ELSE Vector2_emplace_back(v, x)
V_pop_back(v) ==
    IF impl = "Vector.h" THEN Vector_pop_back(v) ELSE Vector2_pop_back(v)

InitVector ==
    /\ class = "Vector"
    /\ impl \in VectorImpls
    /\ \E l \in SeqsUpTo(Elems, MaxList) :
          /\ \/ vec = IF impl = "Vector.h" THEN Vector_FromList(l) ELSE Vector2_FromList(l)
             \/ l = << >> /\ vec = IF impl = "Vector.h" THEN Vector_Vector ELSE Vector2_Vector
          /\ abs = l
    /\ queue = Unused /\ pq = Unused /\ stack = Unused /\ list = Unused
    /\ op = "new" /\ err = "none" /\ ret = Raw /\ ub = "none" /\ arg = << >> /\ orphan = << >>
    /\ rhs = Unused
    /\ pre = [count |-> 0, capacity |-> 0, front |-> 0]

\* push_back(const T&)
Vec_PushBack(x) ==
    /\ Running("Vector") /\ vec._size < MaxSize
    /\ vec' = V_push_back(vec, x)
    /\ abs' = Append(abs, x)
    /\ Called("push_back", "none", Raw)
    /\ UNCHANGED ub /\ Others("Vector")

\* emplace_back(x) and push_back(T&&), which forwards to it; it returns back().
Vec_EmplaceBack(x) ==
    /\ Running("Vector") /\ vec._size < MaxSize
    /\ vec' = IF impl = "Vector.h" THEN Vector_push_back(vec, x)
              ELSE Vector2_emplace_back(vec, x)
    /\ abs' = Append(abs, x)
    /\ Called("emplace_back", "none", Load(vec'._data, vec'._size - 1))
    /\ UNCHANGED ub /\ Others("Vector")

\* pop_back() on a vector that is not empty (its assert holds).
Vec_PopBack ==
    /\ Running("Vector") /\ vec._size > 0
    /\ vec' = V_pop_back(vec)
    /\ abs' = RemoveLast(abs)
    /\ Called("pop_back", "none", Raw)
    /\ UNCHANGED ub /\ Others("Vector")

\* at(pos)
Vec_At(pos) ==
    /\ Running("Vector")
    /\ IF (IF impl = "Vector.h" THEN Vector_at_throws(vec, pos)
           ELSE Vector2_at_throws(vec, pos))
       THEN CalledWith("at", <<pos>>, "OutOfRange", Raw)
       ELSE CalledWith("at", <<pos>>, "none", Load(vec._data, pos))
    /\ UNCHANGED <<vec, abs, ub>> /\ Others("Vector")

\* insert(pos, const T&)
Vec_Insert(pos, x) ==
    /\ Running("Vector") /\ vec._size < MaxSize
    /\ IF impl = "Vector.h"
       THEN IF Vector_insert_throws(vec, pos)
            THEN CalledWith("insert", <<pos>>, "OutOfRange", Raw) /\ UNCHANGED <<vec, abs>>
            ELSE /\ vec' = Vector_insert(vec, pos, x)
                 /\ abs' = InsertAt(abs, pos, <<x>>)
                 /\ CalledWith("insert", <<pos>>, "none", Raw)
       ELSE IF Vector2_emplace_throws(vec, pos)
            THEN CalledWith("insert", <<pos>>, "OutOfRange", Raw) /\ UNCHANGED <<vec, abs>>
            ELSE /\ vec' = Vector2_emplace(vec, pos, x)
                 /\ abs' = InsertAt(abs, pos, <<x>>)
                 /\ CalledWith("insert", <<pos>>, "none", Raw)
    /\ UNCHANGED ub /\ Others("Vector")

\* emplace(pos, x) and insert(pos, T&&), which forwards to it.
Vec_Emplace(pos, x) ==
    /\ Running("Vector") /\ vec._size < MaxSize
    /\ IF impl = "Vector.h"
       THEN IF Vector_insert_throws(vec, pos)
            THEN CalledWith("emplace", <<pos>>, "OutOfRange", Raw) /\ UNCHANGED <<vec, abs>>
            ELSE /\ vec' = Vector_emplace(vec, pos, x)
                 /\ abs' = InsertAt(abs, pos, <<x>>)
                 /\ CalledWith("emplace", <<pos>>, "none", Raw)
       ELSE IF Vector2_emplace_throws(vec, pos)
            THEN CalledWith("emplace", <<pos>>, "OutOfRange", Raw) /\ UNCHANGED <<vec, abs>>
            ELSE /\ vec' = Vector2_emplace(vec, pos, x)
                 /\ abs' = InsertAt(abs, pos, <<x>>)
                 /\ CalledWith("emplace", <<pos>>, "none", Raw)
    /\ UNCHANGED ub /\ Others("Vector")

\* Whether this insert of count elements at pos is the one of src/Vector.h
\* on overlapping ranges.
Vec_InsertOverlaps(pos, count) ==
    impl = "Vector.h" /\ ~Vector_insert_throws(vec, pos)
    /\ Vector_insert_overlaps(vec, pos, count)

\* insert(pos, count, const T&)
Vec_InsertN(pos, count, x) ==
    /\ Running("Vector") /\ vec._size + count <= MaxSize
    /\ ~Vec_InsertOverlaps(pos, count)
    /\ IF (IF impl = "Vector.h" THEN Vector_insert_throws(vec, pos)
           ELSE Vector2_emplace_throws(vec, pos))
       THEN CalledWith("insert_n", <<pos, count>>, "OutOfRange", Raw) /\ UNCHANGED <<vec, abs>>
       ELSE /\ vec' = IF impl = "Vector.h" THEN Vector_insertN(vec, pos, count, x)
                      ELSE Vector2_insertN(vec, pos, count, x)
            /\ abs' = InsertAt(abs, pos, Repeat(count, x))
            /\ CalledWith("insert_n", <<pos, count>>, "none", Raw)
    /\ UNCHANGED ub /\ Others("Vector")

\* src/Vector.h: insert(pos, count, const T&) with fewer new elements than
\* elements behind pos: its uninitialized_move runs on overlapping ranges,
\* element by element or as one block.
Vec_InsertNOverlapped(pos, count, x) ==
    /\ Running("Vector") /\ vec._size + count <= MaxSize
    /\ Vec_InsertOverlaps(pos, count)
    /\ \E kind \in MoveKinds : vec' = Vector_insertN_as(kind, vec, pos, count, x)
    /\ abs' = InsertAt(abs, pos, Repeat(count, x))
    /\ ub' = "overlapping move"
    /\ CalledWith("insert_n", <<pos, count>>, "none", Raw)
    /\ Others("Vector")

\* src/Vector.h: insert(pos, std::initializer_list<T>) of a list shorter
\* than the elements behind pos, as Vec_InsertNOverlapped.
Vec_InsertListOverlapped(pos, l) ==
    /\ Running("Vector") /\ vec._size + Len(l) <= MaxSize
    /\ Vec_InsertOverlaps(pos, Len(l))
    /\ \E kind \in MoveKinds : vec' = Vector_insertList_as(kind, vec, pos, l)
    /\ abs' = InsertAt(abs, pos, l)
    /\ ub' = "overlapping move"
    /\ CalledWith("insert_list", <<pos>>, "none", Raw)
    /\ Others("Vector")

\* insert(pos, std::initializer_list<T>)
Vec_InsertList(pos, l) ==
    /\ Running("Vector") /\ vec._size + Len(l) <= MaxSize
    /\ ~Vec_InsertOverlaps(pos, Len(l))
    /\ IF (IF impl = "Vector.h" THEN Vector_insert_throws(vec, pos)
           ELSE Vector2_emplace_throws(vec, pos))
       THEN CalledWith("insert_list", <<pos>>, "OutOfRange", Raw) /\ UNCHANGED <<vec, abs>>
       ELSE /\ vec' = IF impl = "Vector.h" THEN Vector_insertList(vec, pos, l)
                      ELSE Vector2_insertList(vec, pos, l)
            /\ abs' = InsertAt(abs, pos, l)
            /\ CalledWith("insert_list", <<pos>>, "none", Raw)
    /\ UNCHANGED ub /\ Others("Vector")

\* erase(pos)
Vec_Erase(pos) ==
    /\ Running("Vector")
    /\ IF (IF impl = "Vector.h" THEN Vector_erase_throws(vec, pos)
           ELSE Vector2_erase_throws(vec, pos))
       THEN CalledWith("erase", <<pos>>, "OutOfRange", Raw) /\ UNCHANGED <<vec, abs>>
       ELSE /\ vec' = IF impl = "Vector.h" THEN Vector_erase(vec, pos)
                      ELSE Vector2_erase(vec, pos)
            /\ abs' = RemoveRange(abs, pos, pos + 1)
            /\ CalledWith("erase", <<pos>>, "none", Raw)
    /\ UNCHANGED ub /\ Others("Vector")

\* src/Vector.h: erase(first, last)
Vec_EraseRange(first, last) ==
    /\ Running("Vector") /\ impl = "Vector.h"
    /\ IF Vector_eraseRange_throws(vec, first, last)
       THEN CalledWith("erase_range", <<first, last>>, "OutOfRange", Raw) /\ UNCHANGED <<vec, abs>>
       ELSE /\ vec' = Vector_eraseRange(vec, first, last)
            /\ abs' = RemoveRange(abs, first, last)
            /\ CalledWith("erase_range", <<first, last>>, "none", Raw)
    /\ UNCHANGED ub /\ Others("Vector")

\* src/unnamed/part_001: erase(pos, count) with pos + count <= SIZE_MAX
Vec_EraseN(pos, count) ==
    /\ Running("Vector") /\ impl = "part_001"
    /\ ~Vector2_eraseN_wraps(vec, pos, count)
    /\ IF Vector2_eraseN_throws(vec, pos, count)
       THEN CalledWith("erase_n", <<pos, count>>, "OutOfRange", Raw) /\ UNCHANGED <<vec, abs>>
       ELSE /\ vec' = Vector2_eraseN(vec, pos, count)
            /\ abs' = RemoveRange(abs, pos, pos + count)
            /\ CalledWith("erase_n", <<pos, count>>, "none", Raw)
    /\ UNCHANGED ub /\ Others("Vector")

\* src/unnamed/part_001: erase(pos, count) whose sum pos + count wraps past
\* the check. The pointers _data + pos + i it forms lie outside of the
\* storage, which is undefined: the call traps, or it runs on with size_t
\* arithmetic and leaves _size - count in _size.
Vec_EraseNWrapped(pos, count) ==
    /\ Running("Vector") /\ impl = "part_001"
    /\ Vector2_eraseN_wraps(vec, pos, count)
    /\ \/ vec' = vec
       \/ vec' = Vector2_eraseN(vec, pos, count)
    /\ ub' = "wild erase"
    /\ CalledWith("erase_n", <<pos, count>>, "none", Raw)
    /\ UNCHANGED abs /\ Others("Vector")

Vec_Reserve(n) ==
    /\ Running("Vector")
    /\ vec' = IF impl = "Vector.h" THEN Vector_reserve(vec, n) ELSE Vector2_reserve(vec, n)
    /\ CalledWith("reserve", <<n>>, "none", Raw)
    /\ UNCHANGED <<abs, ub>> /\ Others("Vector")

Vec_ShrinkToFit ==
    /\ Running("Vector")
    /\ vec' = IF impl = "Vector.h" THEN Vector_shrink_to_fit(vec)
              ELSE Vector2_shrink_to_fit(vec)
    /\ Called("shrink_to_fit", "none", Raw)
    /\ UNCHANGED <<abs, ub>> /\ Others("Vector")

Vec_Clear ==
    /\ Running("Vector")
    /\ vec' = IF impl = "Vector.h" THEN Vector_clear(vec) ELSE Vector2_clear(vec)
    /\ abs' = << >>
    /\ Called("clear", "none", Raw)
    /\ UNCHANGED ub /\ Others("Vector")

\* What resize leaves of an abstract sequence.
Resized(s, count, x) ==
    IF count <= Len(s) THEN SubSeq(s, 1, count) ELSE s \o Repeat(count - Len(s), x)

\* resize(count)
Vec_Resize(count) ==
    /\ Running("Vector")
    /\ vec' = IF impl = "Vector.h" THEN Vector_resize(vec, count)
              ELSE Vector2_resize(vec, count)
    /\ abs' = Resized(abs, count, T_default)
    /\ Called("resize", "none", Raw)
    /\ UNCHANGED ub /\ Others("Vector")

\* resize(count, const T&)
Vec_ResizeWith(count, x) ==
    /\ Running("Vector")
    /\ vec' = IF impl = "Vector.h" THEN Vector_resizeWith(vec, count, x)
              ELSE Vector2_resizeWith(vec, count, x)
    /\ abs' = Resized(abs, count, x)
    /\ Called("resize_with", "none", Raw)
    /\ UNCHANGED ub /\ Others("Vector")

\* assign(count, const T&)
Vec_Assign(count, x) ==
    /\ Running("Vector")
    /\ vec' = IF impl = "Vector.h" THEN Vector_assign(vec, count, x)
              ELSE Vector2_assign(vec, count, x)
    /\ abs' = Repeat(count, x)
    /\ Called("assign", "none", Raw)
    /\ UNCHANGED ub /\ Others("Vector")

\* src/Vector.h: assign(first, last, const T&)
Vec_AssignRange(first, last, x) ==
    /\ Running("Vector") /\ impl = "Vector.h"
    /\ IF Vector_assignRange_throws(vec, first, last)
       THEN Called("assign_range", "OutOfRange", Raw) /\ UNCHANGED <<vec, abs>>
       ELSE /\ vec' = Vector_assignRange(vec, first, last, x)
            /\ abs' = [k \in 1..Len(abs) |->
                          IF k - 1 >= first /\ k - 1 < last THEN x ELSE abs[k]]
            /\ Called("assign_range", "none", Raw)
    /\ UNCHANGED ub /\ Others("Vector")

\* assign(std::initializer_list<T>) and operator=(std::initializer_list<T>)
Vec_AssignList(l) ==
    /\ Running("Vector")
    /\ vec' = IF impl = "Vector.h" THEN Vector_assignList(vec, l)
              ELSE Vector2_assignList(vec, l)
    /\ abs' = l
    /\ Called("assign_list", "none", Raw)
    /\ UNCHANGED ub /\ Others("Vector")

NextVector ==
    \/ \E x \in Elems : Vec_PushBack(x)
    \/ \E x \in Elems : Vec_EmplaceBack(x)
    \/ Vec_PopBack
    \/ \E pos \in 0..MaxSize : Vec_At(pos)
    \/ \E pos \in 0..MaxSize, x \in Elems : Vec_Insert(pos, x)
    \/ \E pos \in 0..MaxSize, x \in Elems : Vec_Emplace(pos, x)
    \/ \E pos \in 0..MaxSize, count \in 0..MaxList, x \in Elems : Vec_InsertN(pos, count, x)
    \/ \E pos \in 0..MaxSize, l \in SeqsUpTo(Elems, MaxList) : Vec_InsertList(pos, l)
    \/ \E pos \in 0..MaxSize, count \in 0..MaxList, x \in Elems :
          Vec_InsertNOverlapped(pos, count, x)
    \/ \E pos \in 0..MaxSize, l \in SeqsUpTo(Elems, MaxList) :
          Vec_InsertListOverlapped(pos, l)
    \/ \E pos \in 0..MaxSize : Vec_Erase(pos)
    \/ \E first \in 0..MaxSize, last \in 0..(MaxSize + 1) : Vec_EraseRange(first, last)
    \/ \E pos \in SizeArgs, count \in SizeArgs : Vec_EraseN(pos, count)
    \/ \E pos \in SizeArgs, count \in SizeArgs : Vec_EraseNWrapped(pos, count)
    \/ \E n \in 0..MaxReserve : Vec_Reserve(n)
    \/ Vec_ShrinkToFit
    \/ Vec_Clear
    \/ \E count \in 0..MaxSize : Vec_Resize(count)
    \/ \E count \in 0..MaxSize, x \in Elems : Vec_ResizeWith(count, x)
    \/ \E count \in 0..MaxList, x \in Elems : Vec_Assign(count, x)
    \/ \E first \in 0..MaxSize, last \in 0..(MaxSize + 1), x \in Elems :
          Vec_AssignRange(first, last, x)
    \/ \E l \in SeqsUpTo(Elems, MaxList) : Vec_AssignList(l)

SpecVector == InitVector /\ [][NextVector]_vars

\* The Vector under push_back, emplace_back and pop_back alone.
NextVectorBack ==
    \/ \E x \in Elems : Vec_PushBack(x)
    \/ \E x \in Elems : Vec_EmplaceBack(x)
    \/ Vec_PopBack

SpecVectorBack == InitVector /\ [][NextVectorBack]_vars

\* push_back(x) on a full buffer whose reallocation throws while it
\* constructs element k of the new buffer.
Vec_PushBackThrows(x, k, moves) ==
    /\ Running("Vector") /\ Len(orphan) < MaxOrphans
    /\ vec._size = vec._capacity /\ k \in 0..(vec._size - 1)
    /\ LET new_cap == IF vec._capacity = 0 THEN 1 ELSE vec._capacity * 2
           r == IF impl = "Vector.h"
                THEN Vector_reallocate_throws(vec, new_cap, k, moves)
                ELSE Vector2_reallocate_throws(vec, new_cap, k, moves)
       IN vec' = r.vec /\ orphan' = orphan \o r.left
    /\ Returned("push_back", <<x>>, "Thrown", Raw)
    /\ UNCHANGED <<abs, ub>> /\ Others("Vector")

\* The Vector under push_back, emplace_back and pop_back with elements whose
\* constructors may throw.
NextVectorThrow ==
    \/ NextVectorBack
    \/ \E x \in Elems, k \in 0..MaxSize, moves \in BOOLEAN : Vec_PushBackThrows(x, k, moves)

SpecVectorThrow == InitVector /\ [][NextVectorThrow]_vars

-----------------------------------------------------------------------------
(* List, src/List.h                                                        *)
(* A list is its nodes and its _size. node[n] is the NodeBase and the      *)
(* value of node n; node 0 is _sentinel; the nodes that are not live are   *)
(* free storage.                                                           *)

Sentinel == 0
\* nullptr
NullNode == 0 - 1
\* The storage the allocator has: one node more than the Vector has slots, so
\* that both walks of node_at take more than one step.
MaxNodes == MaxSize + 1
NodeIds == 1..MaxNodes
FreeNode == [prev |-> NullNode, next |-> NullNode, value |-> Raw, live |-> FALSE]

\* List(const Allocator&)
List_List ==
    [node |-> [n \in {Sentinel} \cup NodeIds |->
                  IF n = Sentinel
                  THEN [prev |-> Sentinel, next |-> Sentinel, value |-> Raw, live |-> TRUE]
                  ELSE FreeNode],
     _size |-> 0]

\* NodeAllocTraits::allocate(_nodeAlloc, 1): storage that is free.
allocate(l) == CHOOSE n \in NodeIds : ~l.node[n].live /\ \A m \in NodeIds : m < n => l.node[m].live

\* create_node(args...): the node it returns is allocate(l).
create_node(l, value) ==
    [l EXCEPT !.node[allocate(l)] =
        [prev |-> NullNode, next |-> NullNode, value |-> value, live |-> TRUE]]

destroy_node(l, node) == [l EXCEPT !.node[node] = FreeNode]

link(l, prev, node, next) ==
    LET a == [l EXCEPT !.node[prev].next = node]
        b == [a EXCEPT !.node[node].prev = prev]
        c == [b EXCEPT !.node[node].next = next]
    IN [c EXCEPT !.node[next].prev = node]

unlink(l, node) ==
    LET a == [l EXCEPT !.node[l.node[node].prev].next = l.node[node].next]
    IN [a EXCEPT !.node[a.node[node].next].prev = a.node[node].prev]

\* cur after n steps of cur = cur->next (forward) or cur = cur->prev.
RECURSIVE Walk(_, _, _, _)
Walk(l, cur, n, forward) ==
    IF n <= 0 THEN cur
    ELSE Walk(l, IF forward THEN l.node[cur].next ELSE l.node[cur].prev, n - 1, forward)

\* node_at whose backward walk takes one step more.
node_at_OneMore(l, pos) ==
    IF pos < l._size \div 2
    THEN Walk(l, l.node[Sentinel].next, pos, TRUE)
    ELSE Walk(l, Sentinel, l._size - pos + 1, FALSE)

node_at(l, pos) ==
    IF pos < l._size \div 2
    THEN Walk(l, l.node[Sentinel].next, pos, TRUE)
    ELSE Walk(l, Sentinel, l._size - pos, FALSE)

\* emplace(size_t pos, Args&&... args); insert(pos, value) forwards to it.
List_emplace_throws(l, pos) == pos > l._size

List_emplace(l, pos, value) ==
    LET nextNode == IF pos = l._size THEN Sentinel ELSE node_at(l, pos)
        prevNode == l.node[nextNode].prev
        newNode == allocate(l)
        linked == link(create_node(l, value), prevNode, newNode, nextNode)
    IN [linked EXCEPT !._size = l._size + 1]

\* The loops of insert(pos, count, value) and insert(pos, ilist) over the
\* values still to insert.
RECURSIVE List_insertLoop(_, _, _, _)
List_insertLoop(l, prevNode, nextNode, values) ==
    IF values = << >> THEN l
    ELSE LET newNode == allocate(l)
         IN List_insertLoop(link(create_node(l, Head(values)), prevNode, newNode, nextNode),
                            newNode, nextNode, Tail(values))

\* insert(size_t pos, size_t count, const T& value)
List_insertN(l, pos, count, value) ==
    IF count = 0 THEN l
    ELSE LET nextNode == IF pos = l._size THEN Sentinel ELSE node_at(l, pos)
             prevNode == l.node[nextNode].prev
             looped == List_insertLoop(l, prevNode, nextNode, [k \in 1..count |-> value])
         IN [looped EXCEPT !._size = l._size + count]

\* insert(size_t pos, std::initializer_list<T> ilist)
List_insertList(l, pos, ilist) ==
    LET nextNode == IF pos = l._size THEN Sentinel ELSE node_at(l, pos)
        prevNode == l.node[nextNode].prev
        looped == List_insertLoop(l, prevNode, nextNode, ilist)
    IN [looped EXCEPT !._size = l._size + Len(ilist)]

\* erase(size_t pos)
\* A check of erase(pos) that lets pos = _size through.
List_erase_throws_Past(l, pos) == pos > l._size

List_erase_throws(l, pos) == pos >= l._size

List_erase(l, pos) ==
    LET node == node_at(l, pos)
    IN [destroy_node(unlink(l, node), node) EXCEPT !._size = l._size - 1]

\* erase(size_t first, size_t last)
List_eraseRange_throws(l, first, last) == first > last \/ last > l._size

\* The while loop of erase(first, last).
RECURSIVE List_eraseLoop(_, _, _)
List_eraseLoop(l, cur, lastNode) ==
    IF cur = lastNode THEN l
    ELSE List_eraseLoop(destroy_node(l, cur), l.node[cur].next, lastNode)

List_eraseRange(l, first, last) ==
    IF first = last THEN l
    ELSE LET firstNode == node_at(l, first)
             lastNode == IF last = l._size THEN Sentinel ELSE node_at(l, last)
             prevNode == l.node[firstNode].prev
             looped == List_eraseLoop(l, firstNode, lastNode)
         IN [looped EXCEPT !.node[prevNode].next = lastNode,
                           !.node[lastNode].prev = prevNode,
                           !._size = l._size - (last - first)]

\* emplace_back(Args&&... args); push_back forwards to it.
List_emplace_back(l, value) ==
    LET newNode == allocate(l)
    IN [link(create_node(l, value), l.node[Sentinel].prev, newNode, Sentinel)
           EXCEPT !._size = l._size + 1]

\* pop_back() and pop_front() throw on an empty list.
List_pop_throws(l) == l._size = 0

List_pop_back(l) ==
    LET node == l.node[Sentinel].prev
    IN [destroy_node(unlink(l, node), node) EXCEPT !._size = l._size - 1]

\* emplace_front(Args&&... args); push_front forwards to it.
List_emplace_front(l, value) ==
    LET newNode == allocate(l)
    IN [link(create_node(l, value), Sentinel, newNode, l.node[Sentinel].next)
           EXCEPT !._size = l._size + 1]

List_pop_front(l) ==
    LET node == l.node[Sentinel].next
    IN [destroy_node(unlink(l, node), node) EXCEPT !._size = l._size - 1]

\* resize(size_t count, const T& value = T())
RECURSIVE List_resize(_, _, _)
List_resize(l, count, value) ==
    IF l._size > count THEN List_resize(List_pop_back(l), count, value)
    ELSE IF l._size < count THEN List_resize(List_emplace_back(l, value), count, value)
    ELSE l

\* clear()
RECURSIVE List_clear(_)
List_clear(l) == IF l._size = 0 THEN l ELSE List_clear(List_pop_back(l))

\* List(std::initializer_list<T> init, const Allocator&)
RECURSIVE List_pushAll(_, _)
List_pushAll(l, values) ==
    IF values = << >> THEN l
    ELSE List_pushAll(List_emplace_back(l, Head(values)), Tail(values))

List_FromList(init) == List_pushAll(List_List, init)

\* The values from _sentinel.next on, as operator== reads them: _size of
\* them, or fewer when the walk is back at the sentinel before.
RECURSIVE List_ValuesFrom(_, _, _)
List_ValuesFrom(l, cur, n) ==
    IF n <= 0 \/ cur = Sentinel \/ cur = NullNode THEN << >>
    ELSE <<l.node[cur].value>> \o List_ValuesFrom(l, l.node[cur].next, n - 1)

List_Elements(l) == List_ValuesFrom(l, l.node[Sentinel].next, Min(l._size, MaxNodes))

-----------------------------------------------------------------------------
(* List, src/unnamed/part_000                                              *)
(* create_node, destroy_node and unlink are those of src/List.h.           *)

List2_node_at(l, pos) ==
    IF pos < l._size \div 2
    THEN Walk(l, l.node[Sentinel].next, pos, TRUE)
    ELSE Walk(l, Sentinel, l._size - pos, FALSE)

link_before(l, successor, new_node) ==
    LET prev == l.node[successor].prev
        a == [l EXCEPT !.node[prev].next = new_node]
        b == [a EXCEPT !.node[new_node].prev = prev]
        c == [b EXCEPT !.node[new_node].next = successor]
    IN [c EXCEPT !.node[successor].prev = new_node]

\* emplace(size_t pos, Args&&... args); insert(pos, value) and push_back
\* forward to it.
List2_emplace_throws(l, pos) == pos > l._size

List2_emplace(l, pos, value) ==
    LET succ == List2_node_at(l, pos)
        new_node == allocate(l)
    IN [link_before(create_node(l, value), succ, new_node) EXCEPT !._size = l._size + 1]

\* The loops of insert(pos, count, value) and insert(pos, ilist).
RECURSIVE List2_insertLoop(_, _, _)
List2_insertLoop(l, succ, values) ==
    IF values = << >> THEN l
    ELSE LET new_node == allocate(l)
             linked == link_before(create_node(l, Head(values)), succ, new_node)
         IN List2_insertLoop([linked EXCEPT !._size = l._size + 1], succ, Tail(values))

\* insert(size_t pos, size_t count, const T& value)
List2_insertN(l, pos, count, value) ==
    List2_insertLoop(l, List2_node_at(l, pos), [k \in 1..count |-> value])

\* insert(size_t pos, std::initializer_list<T> ilist)
List2_insertList(l, pos, ilist) ==
    List2_insertLoop(l, List2_node_at(l, pos), ilist)

\* erase(size_t pos)
List2_erase_throws(l, pos) == pos >= l._size

List2_erase(l, pos) ==
    LET target == List2_node_at(l, pos)
    IN [destroy_node(unlink(l, target), target) EXCEPT !._size = l._size - 1]

List2_push_back(l, value) == List2_emplace(l, l._size, value)

List2_emplace_back(l, value) ==
    LET new_node == allocate(l)
    IN [link_before(create_node(l, value), Sentinel, new_node) EXCEPT !._size = l._size + 1]

\* pop_back(), past its assert
List2_pop_back(l) ==
    LET node == l.node[Sentinel].prev
    IN [destroy_node(unlink(l, node), node) EXCEPT !._size = l._size - 1]

List2_emplace_front(l, value) ==
    LET new_node == allocate(l)
    IN [link_before(create_node(l, value), l.node[Sentinel].next, new_node)
           EXCEPT !._size = l._size + 1]

\* pop_front(), past its assert
List2_pop_front(l) ==
    LET node == l.node[Sentinel].next
    IN [destroy_node(unlink(l, node), node) EXCEPT !._size = l._size - 1]

\* pop_back() and pop_front() on an empty list with the assert compiled out:
\* the node they unlink and destroy is _sentinel, and _size-- wraps.
List2_pop_empty(l) ==
    [unlink(l, Sentinel) EXCEPT !._size = Wrap(l._size - 1)]

\* The for loops of resize: diff times pop_back, or diff times emplace_back.
RECURSIVE List2_popLoop(_, _)
List2_popLoop(l, diff) ==
    IF diff = 0 THEN l ELSE List2_popLoop(List2_pop_back(l), diff - 1)

RECURSIVE List2_appendLoop(_, _, _)
List2_appendLoop(l, diff, value) ==
    IF diff = 0 THEN l
    ELSE List2_appendLoop(List2_emplace_back(l, value), diff - 1, value)

\* resize(size_t count, const T& value); resize(size_t count) is this with T().
List2_resize(l, count, value) ==
    IF l._size > count THEN List2_popLoop(l, l._size - count)
    ELSE IF l._size < count THEN List2_appendLoop(l, count - l._size, value)
    ELSE l

\* The while loop of clear.
RECURSIVE List2_clearLoop(_, _)
List2_clearLoop(l, cur) ==
    IF cur = Sentinel THEN l
    ELSE List2_clearLoop(destroy_node(l, cur), l.node[cur].next)

List2_clear(l) ==
    [List2_clearLoop(l, l.node[Sentinel].next)
        EXCEPT !.node[Sentinel].next = Sentinel,
               !.node[Sentinel].prev = Sentinel,
               !._size = 0]

\* List(std::initializer_list<T> init, const Allocator&)
RECURSIVE List2_pushAll(_, _)
List2_pushAll(l, values) ==
    IF values = << >> THEN l
    ELSE List2_pushAll(List2_push_back(l, Head(values)), Tail(values))

List2_FromList(init) == List2_pushAll(List_List, init)

-----------------------------------------------------------------------------
(* LinkedList, src/LinkedList.h                                            *)
(* Two lists, A and B, and the nodes of both: node[n] is the               *)
(* LinkedListNode n, h[w] the mHead, mTail and mCount of list w. A live    *)
(* node that is in neither list is one its caller holds.                   *)

ListNames == {"A", "B"}
OtherList(w) == IF w = "A" THEN "B" ELSE "A"
\* a <=> b of two elements.
ThreeWay(a, b) == IF a < b THEN "less" ELSE IF a > b THEN "greater" ELSE "equal"

FreeLinkedListNode ==
    [mValue |-> Raw, mNext |-> NullNode, mPrev |-> NullNode, live |-> FALSE]

\* LinkedList()
LinkedList_LinkedList == [mHead |-> NullNode, mTail |-> NullNode, mCount |-> 0]

\* The two lists empty and no node allocated.
LinkedList_Heap ==
    [node |-> [n \in NodeIds |-> FreeLinkedListNode],
     A |-> LinkedList_LinkedList,
     B |-> LinkedList_LinkedList]

\* new LinkedListNode<T>(value): the node it returns is LinkedList_new(h).
LinkedList_new(h) ==
    CHOOSE n \in NodeIds : ~h.node[n].live /\ \A m \in NodeIds : m < n => h.node[m].live

LinkedListNode_LinkedListNode(h, value) ==
    [h EXCEPT !.node[LinkedList_new(h)] =
        [mValue |-> value, mNext |-> NullNode, mPrev |-> NullNode, live |-> TRUE]]

\* Insert that leaves before->mPrev as it was.
LinkedList_Insert_NoBackLink(h, w, newNode, before) ==
    IF newNode = NullNode THEN h
    ELSE LET linked ==
               IF before = NullNode
               THEN LET a == [h EXCEPT !.node[newNode].mPrev = h[w].mTail]
                        b == [a EXCEPT !.node[newNode].mNext = NullNode]
                        c == IF b[w].mTail # NullNode
                             THEN [b EXCEPT !.node[b[w].mTail].mNext = newNode]
                             ELSE [b EXCEPT ![w].mHead = newNode]
                    IN [c EXCEPT ![w].mTail = newNode]
               ELSE LET a == [h EXCEPT !.node[newNode].mPrev = h.node[before].mPrev]
                        b == [a EXCEPT !.node[newNode].mNext = before]
                    IN IF b.node[before].mPrev # NullNode
                       THEN [b EXCEPT !.node[b.node[before].mPrev].mNext = newNode]
                       ELSE [b EXCEPT ![w].mHead = newNode]
         IN [linked EXCEPT ![w].mCount = linked[w].mCount + 1]

\* bool Insert(LinkedListNode<T>* newNode, LinkedListNode<T>* before)
LinkedList_Insert_returns(newNode) == newNode # NullNode

LinkedList_Insert(h, w, newNode, before) ==
    IF newNode = NullNode THEN h
    ELSE LET linked ==
               IF before = NullNode
               THEN LET a == [h EXCEPT !.node[newNode].mPrev = h[w].mTail]
                        b == [a EXCEPT !.node[newNode].mNext = NullNode]
                        c == IF b[w].mTail # NullNode
                             THEN [b EXCEPT !.node[b[w].mTail].mNext = newNode]
                             ELSE [b EXCEPT ![w].mHead = newNode]
                    IN [c EXCEPT ![w].mTail = newNode]
               ELSE LET a == [h EXCEPT !.node[newNode].mPrev = h.node[before].mPrev]
                        b == [a EXCEPT !.node[newNode].mNext = before]
                        c == IF b.node[before].mPrev # NullNode
                             THEN [b EXCEPT !.node[b.node[before].mPrev].mNext = newNode]
                             ELSE [b EXCEPT ![w].mHead = newNode]
                    IN [c EXCEPT !.node[before].mPrev = newNode]
         IN [linked EXCEPT ![w].mCount = linked[w].mCount + 1]

\* AddHead(LinkedListNode<T>*)
LinkedList_AddHead(h, w, newNode) == LinkedList_Insert(h, w, newNode, h[w].mHead)

\* AddTail(LinkedListNode<T>*)
LinkedList_AddTail(h, w, newNode) == LinkedList_Insert(h, w, newNode, NullNode)

\* EmplaceHead(args...), which AddHead(value) forwards to.
LinkedList_EmplaceHead(h, w, value) ==
    LinkedList_Insert(LinkedListNode_LinkedListNode(h, value), w, LinkedList_new(h), h[w].mHead)

\* EmplaceTail(args...), which AddTail(value) forwards to.
LinkedList_EmplaceTail(h, w, value) ==
    LinkedList_Insert(LinkedListNode_LinkedListNode(h, value), w, LinkedList_new(h), NullNode)

\* Insert(const T& value, LinkedListNode<T>* before)
LinkedList_InsertValue(h, w, value, before) ==
    LinkedList_Insert(LinkedListNode_LinkedListNode(h, value), w, LinkedList_new(h), before)

\* Find(value): the loop from node on.
RECURSIVE LinkedList_FindFrom(_, _, _, _)
LinkedList_FindFrom(h, node, value, fuel) ==
    IF node = NullNode \/ fuel = 0 THEN NullNode
    ELSE IF h.node[node].mValue = value THEN node
    ELSE LinkedList_FindFrom(h, h.node[node].mNext, value, fuel - 1)

LinkedList_Find(h, w, value) == LinkedList_FindFrom(h, h[w].mHead, value, MaxNodes)

\* Remove that leaves mPrev and mNext of a node it does not delete.
LinkedList_Remove_KeepLinks(h, w, node, bDelete) ==
    IF node = NullNode THEN h
    ELSE LET prev == h.node[node].mPrev
             next == h.node[node].mNext
             a == IF prev # NullNode THEN [h EXCEPT !.node[prev].mNext = next]
                  ELSE [h EXCEPT ![w].mHead = next]
             b == IF next # NullNode THEN [a EXCEPT !.node[next].mPrev = prev]
                  ELSE [a EXCEPT ![w].mTail = prev]
             c == IF bDelete THEN [b EXCEPT !.node[node] = FreeLinkedListNode] ELSE b
         IN [c EXCEPT ![w].mCount = c[w].mCount - 1]

\* bool Remove(LinkedListNode<T>* node, bool bDelete)
LinkedList_Remove(h, w, node, bDelete) ==
    IF node = NullNode THEN h
    ELSE LET prev == h.node[node].mPrev
             next == h.node[node].mNext
             a == IF prev # NullNode THEN [h EXCEPT !.node[prev].mNext = next]
                  ELSE [h EXCEPT ![w].mHead = next]
             b == IF next # NullNode THEN [a EXCEPT !.node[next].mPrev = prev]
                  ELSE [a EXCEPT ![w].mTail = prev]
             c == IF bDelete THEN [b EXCEPT !.node[node] = FreeLinkedListNode]
                  ELSE [b EXCEPT !.node[node].mPrev = NullNode, !.node[node].mNext = NullNode]
         IN [c EXCEPT ![w].mCount = c[w].mCount - 1]

\* bool Remove(const T& value)
LinkedList_RemoveValue(h, w, value) ==
    LinkedList_Remove(h, w, LinkedList_Find(h, w, value), TRUE)

\* Clear()
RECURSIVE LinkedList_ClearLoop(_, _, _)
LinkedList_ClearLoop(h, w, fuel) ==
    IF h[w].mHead = NullNode \/ fuel = 0 THEN h
    ELSE LET next == h.node[h[w].mHead].mNext
         IN LinkedList_ClearLoop([h EXCEPT !.node[h[w].mHead] = FreeLinkedListNode,
                                           ![w].mHead = next], w, fuel - 1)

LinkedList_Clear(h, w) ==
    [LinkedList_ClearLoop(h, w, MaxNodes) EXCEPT ![w].mTail = NullNode, ![w].mCount = 0]

\* The nodes that following mNext (forward) or mPrev visits from node on
\* before it is at nullptr, at most fuel of them.
RECURSIVE LinkedList_Chain(_, _, _, _)
LinkedList_Chain(h, node, fuel, forward) ==
    IF node \notin NodeIds \/ fuel = 0 THEN << >>
    ELSE <<node>> \o LinkedList_Chain(h, IF forward THEN h.node[node].mNext
                                         ELSE h.node[node].mPrev, fuel - 1, forward)

LinkedList_Forward(h, w) == LinkedList_Chain(h, h[w].mHead, MaxNodes + 1, TRUE)
LinkedList_Backward(h, w) == LinkedList_Chain(h, h[w].mTail, MaxNodes + 1, FALSE)

\* The values a range-based for loop over list w reads.
LinkedList_Values(h, w) ==
    LET f == LinkedList_Forward(h, w) IN [i \in 1..Len(f) |-> h.node[f[i]].mValue]

\* The live nodes that are in neither list.
LinkedList_Held(h) ==
    {n \in NodeIds : h.node[n].live} \
        ({LinkedList_Forward(h, "A")[i] : i \in 1..Len(LinkedList_Forward(h, "A"))}
         \cup {LinkedList_Forward(h, "B")[i] : i \in 1..Len(LinkedList_Forward(h, "B"))})

\* operator<=>: the loop over the nodes a of *this and b of other.
RECURSIVE LinkedList_CompareFrom(_, _, _, _)
LinkedList_CompareFrom(h, a, b, fuel) ==
    IF a # NullNode /\ b # NullNode /\ fuel > 0
    THEN IF h.node[a].mValue # h.node[b].mValue
         THEN ThreeWay(h.node[a].mValue, h.node[b].mValue)
         ELSE LinkedList_CompareFrom(h, h.node[a].mNext, h.node[b].mNext, fuel - 1)
    ELSE IF a = NullNode /\ b = NullNode THEN "equal"
    ELSE IF a = NullNode THEN "less"
    ELSE "greater"

\* operator<=> that is decided by the counts when they differ.
LinkedList_Compare_CountFirst(h, w) ==
    IF h[w].mCount # h[OtherList(w)].mCount
    THEN ThreeWay(h[w].mCount, h[OtherList(w)].mCount)
    ELSE LinkedList_CompareFrom(h, h[w].mHead, h[OtherList(w)].mHead, MaxNodes + 1)

\* w <=> other
LinkedList_Compare(h, w) ==
    LinkedList_CompareFrom(h, h[w].mHead, h[OtherList(w)].mHead, MaxNodes + 1)

\* operator==: the loop over the nodes a of *this and b of other.
RECURSIVE LinkedList_EqualFrom(_, _, _, _)
LinkedList_EqualFrom(h, a, b, fuel) ==
    IF a # NullNode /\ b # NullNode /\ fuel > 0
    THEN IF h.node[a].mValue # h.node[b].mValue THEN FALSE
         ELSE LinkedList_EqualFrom(h, h.node[a].mNext, h.node[b].mNext, fuel - 1)
    ELSE TRUE

\* w == other
LinkedList_Equal(h, w) ==
    IF h[w].mCount # h[OtherList(w)].mCount THEN FALSE
    ELSE LinkedList_EqualFrom(h, h[w].mHead, h[OtherList(w)].mHead, MaxNodes + 1)

-----------------------------------------------------------------------------
(* A Queue, a PriorityQueue or a Stack under test.                         *)

InitContainers == InitQueue \/ InitPQ \/ InitStack

NextContainers == NextQueue \/ NextPQ \/ NextStack

SpecContainers == InitContainers /\ [][NextContainers]_vars

-----------------------------------------------------------------------------
(* Properties of the Queue.                                                *)

\* C1: Queue, both variants: the elements Peek and Dequeue hand back are the
\* ones enqueued and not yet dequeued, in the order they were enqueued: front
\* to rear the queue reads as the sequence the calls so far should have left,
\* and a Peek that returns returns the oldest of them.
C1_Fifo ==
    class = "Queue" =>
        /\ Queue_Logical(queue) = abs
        /\ (op = "Peek" /\ err = "none" /\ abs # << >>) => ret = Head(abs)

\* C1 for the Queue of src/unnamed/part_002 alone.
C1_FifoPart002 == impl = "part_002" => C1_Fifo

\* C2: Queue, both variants: mCount <= mCapacity, and with mCapacity > 0 the
\* indices are in range, mRear = (mFront + mCount) mod mCapacity, and logical
\* element i lives in slot (mFront + i) mod mCapacity of the buffer.
C2_Ring ==
    class = "Queue" =>
        /\ queue.mCount <= queue.mCapacity
        /\ queue.mCapacity > 0 =>
             /\ queue.mFront < queue.mCapacity
             /\ queue.mRear < queue.mCapacity
             /\ queue.mRear = (queue.mFront + queue.mCount) % queue.mCapacity
             /\ \A i \in 0..(queue.mCount - 1) :
                  LET k == (queue.mFront + i) % queue.mCapacity
                  IN /\ InBuf(queue.mData, k)
                     /\ i < Len(abs)
                     /\ queue.mData.slot[k + 1] = abs[i + 1]

\* C2 for the Queue of src/unnamed/part_002 alone.
C2_RingPart002 == impl = "part_002" => C2_Ring

\* C3: an Enqueue made with mCount = mCapacity leaves
\* mCapacity = max(mCount + 1, mCapacity = 0 ? 8 : mCapacity + mCapacity / 2),
\* mFront = 0, the old logical element i in slot i, and mRear at the slot
\* after the new element (mCount mod mCapacity); an Enqueue made with
\* mCount < mCapacity leaves mCapacity as it was.
C3_Growth ==
    [][(class = "Queue" /\ op' = "Enqueue") =>
        IF queue.mCount = queue.mCapacity
        THEN /\ queue'.mCapacity =
                  Max(queue.mCount + 1,
                      IF queue.mCapacity = 0 THEN 8
                      ELSE queue.mCapacity + (queue.mCapacity \div 2))
             /\ queue'.mFront = 0
             /\ \A i \in 0..(queue.mCount - 1) :
                  Load(queue'.mData, i) = Queue_Logical(queue)[i + 1]
             /\ Load(queue'.mData, queue.mCount) \in Vals
             /\ queue'.mCount = queue.mCount + 1
             /\ queue'.mRear = queue'.mCount % queue'.mCapacity
        ELSE queue'.mCapacity = queue.mCapacity]_vars

\* C3's case: an Enqueue has just grown a full queue whose contents were
\* wrapped (front # 0).
C3_Witness ==
    /\ class = "Queue" /\ op = "Enqueue"
    /\ pre.count = pre.capacity /\ pre.front > 0 /\ pre.count > 1
    /\ queue.mCapacity > pre.capacity

-----------------------------------------------------------------------------
(* Properties of the Queue, the PriorityQueue and the Stack.               *)

\* mCount of the object under test.
Count ==
    CASE class = "Queue" -> queue.mCount
      [] class = "PriorityQueue" -> pq.mCount
      [] class = "Stack" -> stack.mCount
      [] class = "Vector" -> vec._size
      [] class = "List" -> list._size
      [] class = "LinkedList" -> list.A.mCount
      [] class = "Lists" -> list._size

\* C4: Queue, PriorityQueue, Stack: a Dequeue, Pop or Peek made with
\* mCount = 0 signals Empty and changes nothing of the container.
C4_EmptySignalled ==
    [][(op' \in {"Dequeue", "Pop", "Peek"} /\ Count = 0) =>
          /\ err' = "Empty"
          /\ queue' = queue /\ stack' = stack
          /\ pq' = pq]_vars

\* C4's case: a Dequeue on a queue that was emptied with its front index
\* away from slot 0 has signalled Empty.
C4_Witness ==
    /\ class = "Queue" /\ op = "Dequeue" /\ err = "Empty"
    /\ queue.mCount = 0 /\ queue.mFront > 0

\* No element of mData[0 .. mCount) ranks above its parent, and each of them
\* is an element.
HeapOrdered(q) ==
    /\ \A i \in 0..(q.mCount - 1) : InBuf(q.mData, i) /\ q.mData.slot[i + 1] \in Keys
    /\ \A i \in 1..(q.mCount - 1) :
          ~(q.mData.slot[((i - 1) \div 2) + 1] < q.mData.slot[i + 1])

\* C5: PriorityQueue: after construction (empty, from a literal list, by
\* copy) and any Enqueue, Dequeue, Reserve and Shrink, no element at an index
\* i > 0 ranks above the element at index (i - 1) / 2.
C5_HeapInvariant == class = "PriorityQueue" => HeapOrdered(pq)

\* C5's case: a Dequeue has sifted the last element down from the root of a
\* heap of four, past a child.
C5_Witness ==
    /\ class = "PriorityQueue" /\ op = "Dequeue" /\ err = "none"
    /\ pq.mCount = 3 /\ pq.log = <<<<"heapifyDown", 0>>>>
    /\ Load(pq.mData, 0) > Load(pq.mData, 1)
    /\ Load(pq.mData, 1) > Load(pq.mData, 2)

\* C6: PriorityQueue with std::less: the stored elements are, as a multiset,
\* the ones enqueued less the ones dequeued, every Dequeue having taken away
\* one occurrence of the highest; no stored element ranks above the root,
\* and a Peek that returns returns the highest.
C6_MaxFirst ==
    class = "PriorityQueue" =>
        /\ BagOf(PriorityQueue_Elements(pq)) = BagOf(abs)
        /\ \A i \in 0..(pq.mCount - 1) : ~(Load(pq.mData, 0) < Load(pq.mData, i))
        /\ (op = "Peek" /\ err = "none" /\ abs # << >>) => ret = Head(abs)

\* C6's case: a Dequeue has taken the highest of four elements, of which a
\* second occurrence is still stored.
C6_Witness ==
    /\ class = "PriorityQueue" /\ op = "Dequeue" /\ err = "none"
    /\ pre.count = 4 /\ pq.mCount = 3
    /\ Load(pq.mData, 0) = NumKeys
    /\ \E i \in 1..2 : Load(pq.mData, i) < Load(pq.mData, 0)

\* C7: PriorityQueue built from a literal list of n elements: the
\* construction calls heapifyDown on n/2 - 1, n/2 - 2, ..., 0 and makes no
\* other heapify call, and leaves a permutation of the list in heap order.
C7_BottomUp ==
    (class = "PriorityQueue" /\ op = "list") =>
        /\ pq.log = [k \in 1..(pq.mCount \div 2) |->
                        <<"heapifyDown", (pq.mCount \div 2) - k>>]
        /\ BagOf(PriorityQueue_Elements(pq)) = BagOf(abs)
        /\ HeapOrdered(pq)

\* C7's case: a heap has been built from a list of four elements with
\* heapifyDown(1), then heapifyDown(0).
C7_Witness ==
    /\ class = "PriorityQueue" /\ op = "list" /\ pq.mCount = 4
    /\ pq.log = <<<<"heapifyDown", 1>>, <<"heapifyDown", 0>>>>
    /\ Load(pq.mData, 3) < Load(pq.mData, 1)

\* C8: Stack: bottom to top the stack reads as the sequence of the elements
\* pushed and not yet popped, so Count is pushes less successful pops and a
\* Peek that returns returns the last of them; and for every x, Push(x) then
\* Peek gives x, and Push(x) then Pop gives back the count and the contents.
C8_Lifo ==
    class = "Stack" =>
        /\ Stack_Elements(stack) = abs
        /\ stack.mCount = Len(abs)
        /\ (op = "Peek" /\ err = "none" /\ abs # << >>) => ret = abs[Len(abs)]
        /\ \A x \in Vals :
              /\ ~Stack_checkEmpty(Stack_Emplace(stack, x))
              /\ Stack_Peek(Stack_Emplace(stack, x)) = x
              /\ Stack_Elements(Stack_Pop(Stack_Emplace(stack, x))) = Stack_Elements(stack)
              /\ Stack_Pop(Stack_Emplace(stack, x)).mCount = stack.mCount

\* C8's case: a Push has grown a full stack of at least two elements.
C8_Witness ==
    /\ class = "Stack" /\ op = "Push"
    /\ pre.count = pre.capacity /\ pre.count >= 2
    /\ stack.mCapacity > pre.capacity

-----------------------------------------------------------------------------
(* Properties of the Vector.                                               *)

\* C9: Vector, both variants, under push_back, emplace_back and pop_back (on
\* a vector that is not empty): size() is the number of insertions less the
\* removals and _data[0 .. _size) holds the surviving elements in the order
\* they were inserted.
C9_RefinesSequence ==
    class = "Vector" =>
        /\ vec._size = Len(abs)
        /\ \A i \in 0..(vec._size - 1) :
              InBuf(vec._data, i) /\ vec._data.slot[i + 1] = abs[i + 1]

\* C9's case: a pop_back has followed a growth of the buffer and left at
\* least two elements.
C9_Witness ==
    /\ class = "Vector" /\ op = "pop_back"
    /\ vec._size >= 2 /\ vec._capacity = 4 /\ Len(abs) = vec._size
    /\ abs[1] # abs[2]

\* C10: Vector, both variants: 0 <= _size <= _capacity after any push_back,
\* emplace_back, insert, erase, pop_back on a vector that is not empty,
\* reserve, shrink_to_fit, resize, assign and clear.
C10_SizeWithinCapacity ==
    class = "Vector" =>
        /\ 0 <= vec._size
        /\ vec._size <= vec._capacity
        /\ ~vec._data.null => Len(vec._data.slot) = vec._capacity

\* C10 for the calls that stay within size_t: it fails only through an
\* erase(pos, count) whose sum wraps.
C10_UnlessWrapped ==
    (class = "Vector" /\ ub = "none") => (0 <= vec._size /\ vec._size <= vec._capacity)

\* The elements of the Vector under test, _data[0 .. _size).
Elements == Vector_Elements(vec)

C13_BulkInsert ==
    [][(class = "Vector" /\ ub = "none" /\ Elements = abs
        /\ op' \in {"insert_n", "insert_list"} /\ err' = "none") =>
          Elements' = abs']_vars

\* C13 for the bulk inserts whose moved range does not overlap its
\* destination.
C13_UnlessOverlapped ==
    [][(class = "Vector" /\ ub = "none" /\ Elements = abs /\ ub' = "none"
        /\ op' \in {"insert_n", "insert_list"} /\ err' = "none") =>
          Elements' = abs']_vars

\* C14: Vector of src/Vector.h: erase(pos) with pos < size removes the element
\* at index pos and erase(first, last) with first <= last <= size removes the
\* elements at first .. last - 1; the others shift left in their order and
\* the size goes down by 1 and by last - first. abs' is that sequence when
\* abs is the old contents.
C14_EraseShifts ==
    [][(class = "Vector" /\ impl = "Vector.h" /\ ub = "none" /\ Elements = abs
        /\ op' \in {"erase", "erase_range"} /\ err' = "none") =>
          /\ Elements' = abs'
          /\ vec'._size = Len(abs')
          /\ op' = "erase" => vec'._size = vec._size - 1
          /\ vec'._capacity = vec._capacity]_vars

\* C14's case: erase(first, last) has removed two of three elements.
C14_Witness ==
    /\ class = "Vector" /\ impl = "Vector.h" /\ op = "erase_range" /\ err = "none"
    /\ pre.count = 3 /\ vec._size = 1 /\ Elements = abs /\ vec._capacity >= 3

\* C15: Vector, both variants: reserve(n) changes neither the size nor the
\* elements and leaves the capacity at max(old capacity, n); shrink_to_fit()
\* changes neither the size nor the elements and leaves capacity = size.
C15_ReserveShrink ==
    [][(class = "Vector" /\ ub = "none" /\ op' \in {"reserve", "shrink_to_fit"}) =>
          /\ vec'._size = vec._size
          /\ \A i \in 0..(vec._size - 1) :
                InBuf(vec'._data, i) /\ Load(vec'._data, i) = Load(vec._data, i)
          /\ op' = "reserve" => vec'._capacity = Max(vec._capacity, arg'[1])
          /\ op' = "shrink_to_fit" => vec'._capacity = vec'._size]_vars

\* C15's case: reserve(3) on a full buffer of two different elements.
C15_Witness ==
    /\ class = "Vector" /\ op = "reserve" /\ arg = <<3>>
    /\ pre.count = 2 /\ pre.capacity = 2 /\ vec._capacity = 3
    /\ Elements = abs /\ abs[1] # abs[2]

\* Whether the call just made had a position outside of its range: at and
\* erase with pos >= size, the inserts and emplace with pos > size,
\* erase(first, last) with first > last or last > size.
C16_BadPosition ==
    CASE op' \in {"at", "erase"} -> arg'[1] >= vec._size
      [] op' \in {"insert", "emplace", "insert_n", "insert_list"} -> arg'[1] > vec._size
      [] op' = "erase_range" -> arg'[1] > arg'[2] \/ arg'[2] > vec._size
      [] OTHER -> FALSE

\* C16: Vector: at(pos) with pos >= size, insert and emplace with pos > size,
\* erase(pos) with pos >= size and erase(first, last) with first > last or
\* last > size signal OutOfRange and leave size, capacity and contents as
\* they were.
C16_OutOfRange ==
    [][(class = "Vector" /\ ub = "none" /\ C16_BadPosition) =>
          err' = "OutOfRange" /\ vec' = vec]_vars

\* C16's case: erase(2, 1) on three elements.
C16_Witness ==
    /\ class = "Vector" /\ op = "erase_range" /\ arg = <<2, 1>>
    /\ err = "OutOfRange" /\ vec._size = 3 /\ pre.count = 3

\* C17: Vector, both variants: when the construction of an element throws
\* during the reallocation that push_back starts at size = capacity, the size,
\* the capacity and the contents are those of before the call, and no storage
\* is left behind: the elements constructed in the new buffer are destroyed
\* and the buffer is released.
C17_StrongGuarantee ==
    [][(class = "Vector" /\ err' = "Thrown") =>
          /\ vec'._size = vec._size
          /\ vec'._capacity = vec._capacity
          /\ Vector_Elements(vec') = Vector_Elements(vec)
          /\ orphan' = orphan]_vars

\* What the Vector keeps of C17 whatever the element type: size and capacity.
C17_SizeKept ==
    [][(class = "Vector" /\ err' = "Thrown") =>
          vec'._size = vec._size /\ vec'._capacity = vec._capacity]_vars

\* C18: PriorityQueue: when the move of an element throws during the
\* reallocation that Enqueue starts at count = capacity, the count and the
\* values of all stored elements are those of before the call and the new
\* buffer has been released.
C18_StrongGuarantee ==
    [][(class = "PriorityQueue" /\ err' = "Thrown") =>
          /\ pq'.mCount = pq.mCount
          /\ PriorityQueue_Elements(pq') = PriorityQueue_Elements(pq)
          /\ orphan' = orphan]_vars

\* What the PriorityQueue keeps of C18 whatever the element type: count,
\* capacity and buffer are its own, and the new buffer is released.
C18_Released ==
    [][(class = "PriorityQueue" /\ err' = "Thrown") =>
          /\ pq'.mCount = pq.mCount /\ pq'.mCapacity = pq.mCapacity
          /\ orphan' = orphan]_vars

-----------------------------------------------------------------------------
(* The identity of a List's nodes.                                         *)
(* The code compares node addresses only for equality, so what a call does *)
(* to a list does not depend on which storage holds which node. A list is  *)
(* kept with its nodes named in the order in which next visits them from   *)
(* the sentinel, and the storage that is not on that walk after them.      *)

\* The nodes from cur on that following next (forward) or prev visits
\* before it is at the sentinel or at nullptr, at most fuel of them.
RECURSIVE List_Chain(_, _, _, _)
List_Chain(l, cur, fuel, forward) ==
    IF cur \notin NodeIds \/ fuel = 0 THEN << >>
    ELSE <<cur>> \o List_Chain(l, IF forward THEN l.node[cur].next ELSE l.node[cur].prev,
                               fuel - 1, forward)

List_Forward(l) == List_Chain(l, l.node[Sentinel].next, MaxNodes + 1, TRUE)
List_Backward(l) == List_Chain(l, l.node[Sentinel].prev, MaxNodes + 1, FALSE)

RECURSIVE Ascending(_)
Ascending(S) ==
    IF S = {} THEN << >>
    ELSE LET m == CHOOSE x \in S : \A y \in S : x <= y
         IN <<m>> \o Ascending(S \ {m})

Renamed(l) ==
    LET f == List_Forward(l)
        order == f \o Ascending(NodeIds \ {f[i] : i \in 1..Len(f)})
        name(n) == IF n \in NodeIds THEN CHOOSE i \in 1..Len(order) : order[i] = n ELSE n
        moved(r) == [r EXCEPT !.prev = name(r.prev), !.next = name(r.next)]
    IN IF \E i, j \in 1..Len(f) : i # j /\ f[i] = f[j] THEN l
       ELSE [l EXCEPT !.node = [n \in {Sentinel} \cup NodeIds |->
                                   IF n = Sentinel THEN moved(l.node[Sentinel])
                                   ELSE moved(l.node[order[n]])]]

-----------------------------------------------------------------------------
(* A List under test: abs is the sequence of the values it holds, front    *)
(* first.                                                                  *)

ListImpls == {"List.h", "part_000"}

InitList ==
    /\ class = "List"
    /\ impl \in ListImpls
    /\ \E l \in SeqsUpTo(Elems, MaxList) :
          /\ list = Renamed(IF impl = "List.h" THEN List_FromList(l) ELSE List2_FromList(l))
          /\ abs = l
    /\ queue = Unused /\ pq = Unused /\ stack = Unused /\ vec = Unused
    /\ op = "new" /\ err = "none" /\ ret = Raw /\ ub = "none" /\ arg = << >> /\ orphan = << >>
    /\ rhs = Unused
    /\ pre = [count |-> 0, capacity |-> 0, front |-> 0]

\* push_back(const T&)
List_PushBack(x) ==
    /\ Running("List") /\ list._size < MaxNodes
    /\ list' = Renamed(IF impl = "List.h" THEN List_emplace_back(list, x)
               ELSE List2_push_back(list, x))
    /\ abs' = Append(abs, x)
    /\ Called("push_back", "none", Raw)
    /\ UNCHANGED ub /\ Others("List")

\* emplace_back(x); it returns the new element.
List_EmplaceBack(x) ==
    /\ Running("List") /\ list._size < MaxNodes
    /\ list' = Renamed(IF impl = "List.h" THEN List_emplace_back(list, x)
               ELSE List2_emplace_back(list, x))
    /\ abs' = Append(abs, x)
    /\ Called("emplace_back", "none", x)
    /\ UNCHANGED ub /\ Others("List")

\* push_front(x) and emplace_front(x), which it forwards to.
List_PushFront(x) ==
    /\ Running("List") /\ list._size < MaxNodes
    /\ list' = Renamed(IF impl = "List.h" THEN List_emplace_front(list, x)
               ELSE List2_emplace_front(list, x))
    /\ abs' = <<x>> \o abs
    /\ Called("push_front", "none", Raw)
    /\ UNCHANGED ub /\ Others("List")

\* emplace(pos, x) and insert(pos, x), which forwards to it.
List_Emplace(pos, x) ==
    /\ Running("List") /\ list._size < MaxNodes
    /\ IF (IF impl = "List.h" THEN List_emplace_throws(list, pos)
           ELSE List2_emplace_throws(list, pos))
       THEN CalledWith("emplace", <<pos, x>>, "OutOfRange", Raw)
            /\ UNCHANGED <<list, abs>>
       ELSE /\ list' = Renamed(IF impl = "List.h" THEN List_emplace(list, pos, x)
                       ELSE List2_emplace(list, pos, x))
            /\ abs' = InsertAt(abs, pos, <<x>>)
            /\ CalledWith("emplace", <<pos, x>>, "none", Raw)
    /\ UNCHANGED ub /\ Others("List")

\* insert(pos, count, const T&)
List_InsertN(pos, count, x) ==
    /\ Running("List") /\ list._size + count <= MaxNodes
    /\ IF (IF impl = "List.h" THEN List_emplace_throws(list, pos)
           ELSE List2_emplace_throws(list, pos))
       THEN CalledWith("insert_n", <<pos, count>>, "OutOfRange", Raw)
            /\ UNCHANGED <<list, abs>>
       ELSE /\ list' = Renamed(IF impl = "List.h" THEN List_insertN(list, pos, count, x)
                       ELSE List2_insertN(list, pos, count, x))
            /\ abs' = InsertAt(abs, pos, Repeat(count, x))
            /\ CalledWith("insert_n", <<pos, count>>, "none", Raw)
    /\ UNCHANGED ub /\ Others("List")

\* insert(pos, std::initializer_list<T>)
List_InsertList(pos, l) ==
    /\ Running("List") /\ list._size + Len(l) <= MaxNodes
    /\ IF (IF impl = "List.h" THEN List_emplace_throws(list, pos)
           ELSE List2_emplace_throws(list, pos))
       THEN CalledWith("insert_list", <<pos>>, "OutOfRange", Raw) /\ UNCHANGED <<list, abs>>
       ELSE /\ list' = Renamed(IF impl = "List.h" THEN List_insertList(list, pos, l)
                       ELSE List2_insertList(list, pos, l))
            /\ abs' = InsertAt(abs, pos, l)
            /\ CalledWith("insert_list", <<pos>>, "none", Raw)
    /\ UNCHANGED ub /\ Others("List")

\* erase(pos)
List_Erase(pos) ==
    /\ Running("List")
    /\ IF (IF impl = "List.h" THEN List_erase_throws(list, pos)
           ELSE List2_erase_throws(list, pos))
       THEN CalledWith("erase", <<pos>>, "OutOfRange", Raw) /\ UNCHANGED <<list, abs>>
       ELSE /\ list' = Renamed(IF impl = "List.h" THEN List_erase(list, pos)
                       ELSE List2_erase(list, pos))
            /\ abs' = RemoveRange(abs, pos, pos + 1)
            /\ CalledWith("erase", <<pos>>, "none", Raw)
    /\ UNCHANGED ub /\ Others("List")

\* src/List.h: erase(first, last)
List_EraseRange(first, last) ==
    /\ Running("List") /\ impl = "List.h"
    /\ IF List_eraseRange_throws(list, first, last)
       THEN CalledWith("erase_range", <<first, last>>, "OutOfRange", Raw)
            /\ UNCHANGED <<list, abs>>
       ELSE /\ list' = Renamed(List_eraseRange(list, first, last))
            /\ abs' = RemoveRange(abs, first, last)
            /\ CalledWith("erase_range", <<first, last>>, "none", Raw)
    /\ UNCHANGED ub /\ Others("List")

\* pop_back(). src/List.h throws on an empty list; src/unnamed/part_000
\* asserts, and List_PopEmpty is its call on an empty list.
List_PopBack ==
    /\ Running("List")
    /\ IF impl = "List.h"
       THEN IF List_pop_throws(list)
            THEN Called("pop_back", "Empty", Raw) /\ UNCHANGED <<list, abs>>
            ELSE /\ list' = Renamed(List_pop_back(list))
                 /\ abs' = SubSeq(abs, 1, Len(abs) - 1)
                 /\ Called("pop_back", "none", Raw)
       ELSE /\ list._size > 0
            /\ list' = Renamed(List2_pop_back(list))
            /\ abs' = SubSeq(abs, 1, Len(abs) - 1)
            /\ Called("pop_back", "none", Raw)
    /\ UNCHANGED ub /\ Others("List")

\* pop_front()
List_PopFront ==
    /\ Running("List")
    /\ IF impl = "List.h"
       THEN IF List_pop_throws(list)
            THEN Called("pop_front", "Empty", Raw) /\ UNCHANGED <<list, abs>>
            ELSE /\ list' = Renamed(List_pop_front(list))
                 /\ abs' = Tail(abs)
                 /\ Called("pop_front", "none", Raw)
       ELSE /\ list._size > 0
            /\ list' = Renamed(List2_pop_front(list))
            /\ abs' = Tail(abs)
            /\ Called("pop_front", "none", Raw)
    /\ UNCHANGED ub /\ Others("List")

\* src/unnamed/part_000: pop_back() or pop_front() on an empty list. With
\* the assert compiled in the call traps; with it compiled out the call
\* destroys _sentinel as if it were a Node, which is undefined, and runs on
\* to _size--.
List_PopEmpty(o) ==
    /\ Running("List") /\ impl = "part_000"
    /\ list._size = 0
    /\ \/ list' = list
       \/ list' = List2_pop_empty(list)
    /\ ub' = "pop on empty"
    /\ Called(o, "none", Raw)
    /\ UNCHANGED abs /\ Others("List")

\* resize(count): the elements it appends are T().
List_Resize(count) ==
    /\ Running("List")
    /\ list' = Renamed(IF impl = "List.h" THEN List_resize(list, count, T_default)
               ELSE List2_resize(list, count, T_default))
    /\ abs' = Resized(abs, count, T_default)
    /\ CalledWith("resize", <<count>>, "none", Raw)
    /\ UNCHANGED ub /\ Others("List")

\* resize(count, const T&)
List_ResizeWith(count, x) ==
    /\ Running("List")
    /\ list' = Renamed(IF impl = "List.h" THEN List_resize(list, count, x)
               ELSE List2_resize(list, count, x))
    /\ abs' = Resized(abs, count, x)
    /\ CalledWith("resize_with", <<count>>, "none", Raw)
    /\ UNCHANGED ub /\ Others("List")

List_Clear ==
    /\ Running("List")
    /\ list' = Renamed(IF impl = "List.h" THEN List_clear(list) ELSE List2_clear(list))
    /\ abs' = << >>
    /\ Called("clear", "none", Raw)
    /\ UNCHANGED ub /\ Others("List")

NextList ==
    \/ \E x \in Elems : List_PushBack(x)
    \/ \E x \in Elems : List_EmplaceBack(x)
    \/ \E x \in Elems : List_PushFront(x)
    \/ \E pos \in 0..(MaxNodes + 1), x \in Elems : List_Emplace(pos, x)
    \/ \E pos \in 0..(MaxNodes + 1), count \in 0..MaxList, x \in Elems :
          List_InsertN(pos, count, x)
    \/ \E pos \in 0..(MaxNodes + 1), l \in SeqsUpTo(Elems, MaxList) : List_InsertList(pos, l)
    \/ \E pos \in 0..(MaxNodes + 1) : List_Erase(pos)
    \/ \E first \in 0..MaxNodes, last \in 0..(MaxNodes + 1) : List_EraseRange(first, last)
    \/ List_PopBack
    \/ List_PopFront
    \/ \E o \in {"pop_back", "pop_front"} : List_PopEmpty(o)
    \/ \E count \in 0..MaxNodes : List_Resize(count)
    \/ \E count \in 0..MaxNodes, x \in Elems : List_ResizeWith(count, x)
    \/ List_Clear

SpecList == InitList /\ [][NextList]_vars

-----------------------------------------------------------------------------
(* Properties of the List.                                                 *)

Reverse(s) == [k \in 1..Len(s) |-> s[Len(s) + 1 - k]]

\* The node a walk is at after the last node of chain c.
List_After(l, c, forward) ==
    LET from == IF c = << >> THEN Sentinel ELSE c[Len(c)]
    IN IF forward THEN l.node[from].next ELSE l.node[from].prev

List_Ring(l) ==
    LET f == List_Forward(l)
        b == List_Backward(l)
    IN /\ Len(f) = l._size
       /\ \A i, j \in 1..Len(f) : f[i] = f[j] => i = j
       /\ \A i \in 1..Len(f) : l.node[f[i]].live
       /\ List_After(l, f, TRUE) = Sentinel
       /\ b = Reverse(f)
       /\ List_After(l, b, FALSE) = Sentinel
       /\ \A n \in {Sentinel} \cup {f[i] : i \in 1..Len(f)} :
            /\ l.node[n].next \in {Sentinel} \cup NodeIds
            /\ l.node[n].prev \in {Sentinel} \cup NodeIds
            /\ l.node[l.node[n].next].prev = n
            /\ l.node[l.node[n].prev].next = n
       /\ (l._size = 0) <=>
            (l.node[Sentinel].next = Sentinel /\ l.node[Sentinel].prev = Sentinel)

\* C19: List, both variants: whatever calls of push_front, push_back,
\* emplace, insert, erase, pop_front, pop_back, resize and clear were made,
\* following next from the sentinel visits exactly _size nodes, all distinct
\* and none the sentinel, and is then back at the sentinel; following prev
\* visits the same nodes in the reverse order and is then back at the
\* sentinel; n.next.prev = n = n.prev.next for every node n of the ring; and
\* _size = 0 exactly when _sentinel.next and _sentinel.prev are the sentinel.
C19_SentinelRing == class = "List" => List_Ring(list)

\* C19 for the lists on which no pop_back or pop_front was called while
\* they were empty (src/unnamed/part_000 only asserts that they are not).
C19_UnlessPoppedEmpty == (class = "List" /\ ub = "none") => List_Ring(list)

\* node_at of the variant under test.
L_node_at(l, pos) == IF impl = "List.h" THEN node_at(l, pos) ELSE List2_node_at(l, pos)

\* C20: List, both variants: on the list a call is made on, node_at(pos) is
\* the node at logical index pos for every 0 <= pos < _size and the sentinel
\* for pos = _size; an emplace or insert(pos, v) that returns leaves v at
\* logical index pos and the other elements around it in their order; an
\* erase(pos) that returns leaves the elements without the one at logical
\* index pos, in their order.
C20_Positional ==
    [][class = "List" =>
        LET old == List_Elements(list)
            new == List_Elements(list')
        IN /\ \A pos \in 0..list._size :
                L_node_at(list, pos) =
                    IF pos = list._size THEN Sentinel ELSE List_Forward(list)[pos + 1]
           /\ (op' = "emplace" /\ err' = "none") =>
                new = InsertAt(old, arg'[1], <<arg'[2]>>)
           /\ (op' = "erase" /\ err' = "none") =>
                new = RemoveRange(old, arg'[1], arg'[1] + 1)]_vars

\* C20's case: an erase has removed an element that node_at walked forward
\* to, pos of _size / 2 being more than 0.
C20_Witness ==
    /\ class = "List" /\ op = "erase" /\ err = "none"
    /\ arg[1] > 0 /\ arg[1] < pre.count \div 2

\* An emplace has put an element before a node that node_at walked backward
\* to in more than one step.
C20_WitnessBackward ==
    /\ class = "List" /\ op = "emplace" /\ err = "none"
    /\ arg[1] >= pre.count \div 2 /\ pre.count - arg[1] > 1

\* The List holds the values of abs, in the order of abs.
ListRefines == (class = "List" /\ ub = "none") => List_Elements(list) = abs

\* Whether the call just made on the List had a position outside of its
\* range: erase with pos >= _size, emplace and the inserts with pos > _size.
C21_BadPosition ==
    CASE op' = "erase" -> arg'[1] >= list._size
      [] op' \in {"emplace", "insert_n", "insert_list"} -> arg'[1] > list._size
      [] OTHER -> FALSE

\* C21: List, both variants: erase(pos) with pos >= _size, an erase on an
\* empty list included, and insert or emplace with pos > _size signal
\* OutOfRange and leave _size, the nodes and their links, and so the order of
\* the elements, as they were.
C21_OutOfRange ==
    [][(class = "List" /\ C21_BadPosition) =>
          err' = "OutOfRange" /\ list' = list]_vars

\* C21's case: an erase(0) on an empty list has signalled OutOfRange.
C21_Witness ==
    /\ class = "List" /\ op = "erase" /\ arg = <<0>> /\ err = "OutOfRange"
    /\ list._size = 0 /\ pre.count = 0

-----------------------------------------------------------------------------
(* Two LinkedLists under test. abs.A and abs.B are the sequences of the    *)
(* values the lists hold, head first; abs.held is the list a node its      *)
(* caller holds was removed from. The caller holds at most one node. The   *)
(* nodes are kept named in the order A's nodes, B's nodes, the held node,  *)
(* free storage: the code compares node addresses only for equality.       *)

LinkedList_Renamed(h) ==
    LET fa == LinkedList_Forward(h, "A")
        fb == LinkedList_Forward(h, "B")
        used == {fa[i] : i \in 1..Len(fa)} \cup {fb[i] : i \in 1..Len(fb)}
        held == {n \in NodeIds \ used : h.node[n].live}
        order == fa \o fb \o Ascending(held) \o Ascending((NodeIds \ used) \ held)
        name(n) == IF n \in NodeIds THEN CHOOSE i \in 1..Len(order) : order[i] = n ELSE n
        moved(r) == [r EXCEPT !.mPrev = name(r.mPrev), !.mNext = name(r.mNext)]
        ends(l) == [l EXCEPT !.mHead = name(l.mHead), !.mTail = name(l.mTail)]
    IN IF Len(order) # MaxNodes THEN h
       ELSE [node |-> [n \in NodeIds |-> moved(h.node[order[n]])],
             A |-> ends(h.A), B |-> ends(h.B)]

\* The first position of value x in sequence t, or 0.
IndexOf(t, x) ==
    IF \E i \in 1..Len(t) : t[i] = x
    THEN CHOOSE i \in 1..Len(t) : t[i] = x /\ \A j \in 1..(i - 1) : t[j] # x
    ELSE 0

LiveNodes(h) == {n \in NodeIds : h.node[n].live}

\* LinkedList(std::initializer_list<T>)
RECURSIVE LinkedList_FromList(_, _, _)
LinkedList_FromList(h, w, ilist) ==
    IF ilist = << >> THEN h
    ELSE LinkedList_FromList(LinkedList_EmplaceTail(h, w, Head(ilist)), w, Tail(ilist))

InitLinkedList ==
    /\ class = "LinkedList"
    /\ impl = "LinkedList.h"
    /\ \E la \in SeqsUpTo(Elems, MaxList), lb \in SeqsUpTo(Elems, MaxList) :
          /\ Len(la) + Len(lb) <= MaxNodes
          /\ list = LinkedList_Renamed(
                       LinkedList_FromList(LinkedList_FromList(LinkedList_Heap, "A", la), "B", lb))
          /\ abs = [A |-> la, B |-> lb, held |-> << >>]
    /\ queue = Unused /\ pq = Unused /\ stack = Unused /\ vec = Unused /\ rhs = Unused
    /\ op = "new" /\ err = "none" /\ ret = Raw /\ ub = "none" /\ arg = << >> /\ orphan = << >>
    /\ pre = [count |-> 0, capacity |-> 0, front |-> 0]

\* w.AddHead(x)
LL_AddHead(w, x) ==
    /\ Running("LinkedList") /\ Cardinality(LiveNodes(list)) < MaxNodes
    /\ list' = LinkedList_Renamed(LinkedList_EmplaceHead(list, w, x))
    /\ abs' = [abs EXCEPT ![w] = <<x>> \o @]
    /\ CalledWith("AddHead", <<w, x>>, "none", Raw)
    /\ UNCHANGED ub /\ Others("LinkedList")

\* w.AddTail(x)
LL_AddTail(w, x) ==
    /\ Running("LinkedList") /\ Cardinality(LiveNodes(list)) < MaxNodes
    /\ list' = LinkedList_Renamed(LinkedList_EmplaceTail(list, w, x))
    /\ abs' = [abs EXCEPT ![w] = Append(@, x)]
    /\ CalledWith("AddTail", <<w, x>>, "none", Raw)
    /\ UNCHANGED ub /\ Others("LinkedList")

\* The node at place i of list w, head first; nullptr for i = 0.
LL_NodeAt(w, i) == IF i = 0 THEN NullNode ELSE LinkedList_Forward(list, w)[i]

\* s with t put in before its element at place i, or at its end for i = 0.
PutBefore(s, i, t) == IF i = 0 THEN s \o t ELSE InsertAt(s, i - 1, t)

\* w.Insert(x, before), before the node at place i of w or nullptr.
LL_Insert(w, x, i) ==
    /\ Running("LinkedList") /\ Cardinality(LiveNodes(list)) < MaxNodes
    /\ i <= list[w].mCount
    /\ list' = LinkedList_Renamed(LinkedList_InsertValue(list, w, x, LL_NodeAt(w, i)))
    /\ abs' = [abs EXCEPT ![w] = PutBefore(@, i, <<x>>)]
    /\ CalledWith("Insert", <<w, x, i>>, "none", Raw)
    /\ UNCHANGED ub /\ Others("LinkedList")

\* w.Remove(node), node the node at place i of w, or nullptr for i = 0.
LL_Remove(w, i) ==
    /\ Running("LinkedList")
    /\ i <= list[w].mCount
    /\ list' = LinkedList_Renamed(LinkedList_Remove(list, w, LL_NodeAt(w, i), TRUE))
    /\ abs' = IF i = 0 THEN abs ELSE [abs EXCEPT ![w] = RemoveRange(@, i - 1, i)]
    /\ CalledWith("Remove", <<w, i>>, "none", i # 0)
    /\ UNCHANGED ub /\ Others("LinkedList")

\* w.Remove(x)
LL_RemoveValue(w, x) ==
    /\ Running("LinkedList")
    /\ list' = LinkedList_Renamed(LinkedList_RemoveValue(list, w, x))
    /\ abs' = IF IndexOf(abs[w], x) = 0 THEN abs
              ELSE [abs EXCEPT ![w] = RemoveRange(@, IndexOf(@, x) - 1, IndexOf(@, x))]
    /\ CalledWith("RemoveValue", <<w, x>>, "none", LinkedList_Find(list, w, x) # NullNode)
    /\ UNCHANGED ub /\ Others("LinkedList")

\* w.Remove(node, false), node the node at place i of w.
LL_Detach(w, i) ==
    /\ Running("LinkedList")
    /\ i >= 1 /\ i <= list[w].mCount
    /\ LinkedList_Held(list) = {}
    /\ list' = LinkedList_Renamed(LinkedList_Remove(list, w, LL_NodeAt(w, i), FALSE))
    /\ abs' = [abs EXCEPT ![w] = RemoveRange(@, i - 1, i), !.held = <<w>>]
    /\ CalledWith("Detach", <<w, i>>, "none", TRUE)
    /\ UNCHANGED ub /\ Others("LinkedList")

\* w.AddHead(node), w.AddTail(node) and w.Insert(node, before) with the node
\* the caller holds: how is "AddHeadNode", "AddTailNode" or "InsertNode", and
\* before the node at place i of w.
LL_Attach(how, w, i) ==
    /\ Running("LinkedList")
    /\ i <= list[w].mCount
    /\ how = "InsertNode" \/ i = 0
    /\ \E node \in LinkedList_Held(list) :
          /\ list' = LinkedList_Renamed(
                        CASE how = "AddHeadNode" -> LinkedList_AddHead(list, w, node)
                          [] how = "AddTailNode" -> LinkedList_AddTail(list, w, node)
                          [] how = "InsertNode" ->
                               LinkedList_Insert(list, w, node, LL_NodeAt(w, i)))
          /\ abs' = [abs EXCEPT
                       ![w] = IF how = "AddHeadNode" THEN <<list.node[node].mValue>> \o @
                              ELSE PutBefore(@, i, <<list.node[node].mValue>>),
                       !.held = << >>]
          /\ CalledWith(how, <<w, abs.held[1], i>>, "none", TRUE)
    /\ UNCHANGED ub /\ Others("LinkedList")

\* w.Clear()
LL_Clear(w) ==
    /\ Running("LinkedList")
    /\ list' = LinkedList_Renamed(LinkedList_Clear(list, w))
    /\ abs' = [abs EXCEPT ![w] = << >>]
    /\ CalledWith("Clear", <<w>>, "none", Raw)
    /\ UNCHANGED ub /\ Others("LinkedList")

\* w <=> other
LL_Compare(w) ==
    /\ Running("LinkedList")
    /\ CalledWith("Compare", <<w>>, "none", LinkedList_Compare(list, w))
    /\ UNCHANGED <<list, abs, ub>> /\ Others("LinkedList")

\* w == other
LL_Equal(w) ==
    /\ Running("LinkedList")
    /\ CalledWith("Equal", <<w>>, "none", LinkedList_Equal(list, w))
    /\ UNCHANGED <<list, abs, ub>> /\ Others("LinkedList")

NextLinkedList ==
    \/ \E w \in ListNames : LL_Compare(w)
    \/ \E w \in ListNames : LL_Equal(w)
    \/ \E w \in ListNames, x \in Elems : LL_AddHead(w, x)
    \/ \E w \in ListNames, x \in Elems : LL_AddTail(w, x)
    \/ \E w \in ListNames, x \in Elems, i \in 0..MaxNodes : LL_Insert(w, x, i)
    \/ \E w \in ListNames, i \in 0..MaxNodes : LL_Remove(w, i)
    \/ \E w \in ListNames, x \in Elems : LL_RemoveValue(w, x)
    \/ \E w \in ListNames, i \in 1..MaxNodes : LL_Detach(w, i)
    \/ \E how \in {"AddHeadNode", "AddTailNode", "InsertNode"}, w \in ListNames,
          i \in 0..MaxNodes : LL_Attach(how, w, i)
    \/ \E w \in ListNames : LL_Clear(w)

SpecLinkedList == InitLinkedList /\ [][NextLinkedList]_vars

\* The lists hold the values of abs, in the order of abs.
LinkedListRefines ==
    class = "LinkedList" =>
        LinkedList_Values(list, "A") = abs.A /\ LinkedList_Values(list, "B") = abs.B

-----------------------------------------------------------------------------
(* Properties of the LinkedList.                                           *)

\* Following mNext from mHead visits exactly mCount nodes and is then at
\* nullptr, following mPrev from mTail visits them in the reverse order,
\* Head()->Prev and Tail()->Next are nullptr, and mHead and mTail are nullptr
\* exactly when mCount is 0.
LinkedList_WellFormed(h, w) ==
    LET f == LinkedList_Forward(h, w)
        b == LinkedList_Backward(h, w)
    IN /\ Len(f) = h[w].mCount
       /\ \A i, j \in 1..Len(f) : f[i] = f[j] => i = j
       /\ \A i \in 1..Len(f) : h.node[f[i]].live
       /\ b = Reverse(f)
       /\ (h[w].mHead = NullNode) <=> (h[w].mCount = 0)
       /\ (h[w].mTail = NullNode) <=> (h[w].mCount = 0)
       /\ h[w].mHead \in NodeIds \cup {NullNode} /\ h[w].mTail \in NodeIds \cup {NullNode}
       /\ f # << >> =>
            /\ h.node[f[1]].mPrev = NullNode
            /\ h.node[f[Len(f)]].mNext = NullNode
            /\ h[w].mTail = f[Len(f)]

\* C23: LinkedList: whatever calls of AddHead, AddTail, Insert before a node,
\* Remove(node) and Remove(value) were made, following Next from Head()
\* visits exactly Count() nodes and is then at null, following Prev from
\* Tail() visits the same nodes in the reverse order, Head()->Prev and
\* Tail()->Next are null, and Head() and Tail() are null exactly when Count()
\* is 0; AddHead leaves the new element first and AddTail leaves it last, the
\* others after and before it in their order; Remove(node) leaves the others
\* in their order without that node.
C23_StructureAndOrder ==
    [][class = "LinkedList" =>
        LET w == arg'[1]
            old == LinkedList_Values(list, w)
            new == LinkedList_Values(list', w)
        IN /\ \A v \in ListNames : LinkedList_WellFormed(list, v)
           /\ \A v \in ListNames : LinkedList_WellFormed(list', v)
           /\ op' = "AddHead" => new = <<arg'[2]>> \o old
           /\ op' = "AddTail" => new = Append(old, arg'[2])
           /\ (op' = "Remove" /\ arg'[2] >= 1) =>
                /\ new = RemoveRange(old, arg'[2] - 1, arg'[2])
                /\ list'[w].mCount = list[w].mCount - 1
                /\ Cardinality(LiveNodes(list')) = Cardinality(LiveNodes(list)) - 1]_vars

\* C23's case: a Remove(node) has taken the second of three nodes out of a
\* list whose first and third values differ.
C23_Witness ==
    /\ class = "LinkedList" /\ op = "Remove" /\ arg = <<"A", 2>>
    /\ list.A.mCount = 2 /\ pre.count = 3
    /\ LinkedList_Values(list, "A")[1] # LinkedList_Values(list, "A")[2]

\* C22: LinkedList: Remove(node, false) on a node of a list leaves that list
\* without the node, its Count one less and its other nodes in their order,
\* and leaves the node alive with mPrev and mNext null; AddHead(node),
\* AddTail(node) and Insert(node, before) with that node on a list leave the
\* node's value at the requested place of that list, its Count one more, and
\* both lists with consistent links.
C22_Detach ==
    [][class = "LinkedList" =>
        LET w == arg'[1]
            old == LinkedList_Values(list, w)
            new == LinkedList_Values(list', w)
            kept == LinkedList_Values(list', OtherList(w)) =
                        LinkedList_Values(list, OtherList(w))
        IN /\ op' = "Detach" =>
                LET node == LinkedList_Forward(list, w)[arg'[2]]
                IN /\ new = RemoveRange(old, arg'[2] - 1, arg'[2])
                   /\ list'[w].mCount = list[w].mCount - 1
                   /\ kept
                   /\ Cardinality(LinkedList_Held(list')) = 1
                   /\ \A n \in LinkedList_Held(list') :
                        /\ list'.node[n].live
                        /\ list'.node[n].mValue = list.node[node].mValue
                        /\ list'.node[n].mPrev = NullNode
                        /\ list'.node[n].mNext = NullNode
                   /\ \A v \in ListNames : LinkedList_WellFormed(list', v)
           /\ op' \in {"AddHeadNode", "AddTailNode", "InsertNode"} =>
                /\ Cardinality(LinkedList_Held(list)) = 1
                /\ \A n \in LinkedList_Held(list) :
                     new = CASE op' = "AddHeadNode" -> <<list.node[n].mValue>> \o old
                             [] op' = "AddTailNode" -> Append(old, list.node[n].mValue)
                             [] op' = "InsertNode" ->
                                  PutBefore(old, arg'[3], <<list.node[n].mValue>>)
                /\ list'[w].mCount = list[w].mCount + 1
                /\ kept
                /\ LinkedList_Held(list') = {}
                /\ LiveNodes(list') = LiveNodes(list)
                /\ \A v \in ListNames : LinkedList_WellFormed(list', v)]_vars

\* C22's case: a node removed from A without being destroyed has been put
\* into B before the second of B's nodes.
C22_Witness ==
    /\ class = "LinkedList" /\ op = "InsertNode" /\ arg = <<"B", "A", 2>>
    /\ list.B.mCount = 3 /\ pre.capacity = 2
    /\ LinkedList_Values(list, "B")[2] # LinkedList_Values(list, "B")[1]

-----------------------------------------------------------------------------
(* Two Lists, src/List.h and src/unnamed/part_000                          *)
(* Lists A and B, and the temporary T that src/List.h's copy assignment    *)
(* makes, share one store of nodes. The operators of a List take the list  *)
(* whose _sentinel is node 0 and whose _size is the field _size: List_As   *)
(* gives the store as list w sees it, with w's _sentinel as node 0, the    *)
(* sentinel of A where w's was, and the two _size fields exchanged.        *)

PairNames == {"A", "B"}
SentinelOf(w) ==
    CASE w = "A" -> Sentinel
      [] w = "B" -> MaxNodes + 1
      [] w = "T" -> MaxNodes + 2
PairIds == {SentinelOf("A"), SentinelOf("B"), SentinelOf("T")} \cup NodeIds

List_As(l, w) ==
    IF w = "A" THEN l
    ELSE LET there(n) == IF n = Sentinel THEN SentinelOf(w)
                         ELSE IF n = SentinelOf(w) THEN Sentinel ELSE n
         IN [l EXCEPT !.node = [n \in PairIds |->
                                   [l.node[there(n)] EXCEPT !.prev = there(@),
                                                            !.next = there(@)]],
                      !._size = l.sizes[w],
                      !.sizes[w] = l._size]

\* The call f on list w, f being a call on the list whose sentinel is node 0.
List_On(l, w, f(_)) == List_As(f(List_As(l, w)), w)

\* The store with A, B and T empty; T is not constructed.
List_Pair ==
    [node |-> [n \in PairIds |->
                  IF n \in NodeIds THEN FreeNode
                  ELSE [prev |-> n, next |-> n, value |-> Raw, live |-> n # SentinelOf("T")]],
     _size |-> 0,
     sizes |-> [B |-> 0, T |-> 0]]

\* _size of list w.
List_SizeOf(l, w) == IF w = "A" THEN l._size ELSE l.sizes[w]

\* List(const Allocator&): the constructor body, on the storage of this.
List_construct(l) ==
    [l EXCEPT !.node[Sentinel] =
                 [prev |-> Sentinel, next |-> Sentinel, value |-> Raw, live |-> TRUE],
              !._size = 0]

\* The values that the loop of the copy operations reads from list w: from
\* other._sentinel.next on until the walk is at other._sentinel.
List_ValuesOf(l, w) ==
    LET v == List_As(l, w)
        f == List_Forward(v)
    IN [i \in 1..Len(f) |-> v.node[f[i]].value]

\* src/List.h: List(const List& other), this being list 0 and other list w.
List_copy(l, w) == List_pushAll(List_construct(l), List_ValuesOf(l, w))

\* src/List.h: swap(List& other), this being list 0 and other list w.
List_swap(l, w) ==
    LET o == SentinelOf(w)
        a == [l EXCEPT !._size = l.sizes[w], !.sizes[w] = l._size]
    IN IF a._size > 0 \/ a.sizes[w] > 0
       THEN LET b == [a EXCEPT !.node[Sentinel].next = a.node[o].next,
                               !.node[o].next = a.node[Sentinel].next]
                c == [b EXCEPT !.node[Sentinel].prev = b.node[o].prev,
                               !.node[o].prev = b.node[Sentinel].prev]
                d == [c EXCEPT !.node[c.node[Sentinel].next].prev = Sentinel]
                e == [d EXCEPT !.node[d.node[Sentinel].prev].next = Sentinel]
                f == [e EXCEPT !.node[e.node[o].next].prev = o]
            IN [f EXCEPT !.node[f.node[o].prev].next = o]
       ELSE a

\* ~List() of list 0: clear(), and the storage of _sentinel ends. wild says
\* whether a pop_back of clear() took a node that is no Node (a sentinel, or
\* nullptr) to destroy_node.
RECURSIVE List_destructor(_, _)
List_destructor(l, fuel) ==
    IF l._size = 0 \/ fuel = 0
    THEN [list |-> [l EXCEPT !.node[Sentinel].live = FALSE], wild |-> FALSE]
    ELSE IF l.node[Sentinel].prev \notin NodeIds
         THEN [list |-> l, wild |-> TRUE]
         ELSE List_destructor(List_pop_back(l), fuel - 1)

\* src/List.h: operator=(const List& other) with this # &other, this being
\* list 0 and other list w: List temp(other); swap(temp); and temp's end.
List_copyAssign(l, w) ==
    LET made == List_On(l, "T", LAMBDA t : List_copy(t, IF w = "A" THEN "T" ELSE w))
        swapped == List_swap(made, "T")
        ended == List_destructor(List_As(swapped, "T"), MaxNodes)
    IN [list |-> List_As(ended.list, "T"), wild |-> ended.wild]

\* src/unnamed/part_000: List(const List& other)
List2_copy(l, w) == List2_pushAll(List_construct(l), List_ValuesOf(l, w))

\* src/unnamed/part_000: operator=(const List& other) with this # &other
List2_copyAssign(l, w) ==
    [list |-> List2_pushAll(List2_clear(l), List_ValuesOf(l, w)), wild |-> FALSE]

\* this->_sentinel and other._sentinel exchange nothing: *this takes the
\* nodes of other (list w) by linking its own sentinel in other's place.
List_takeNodes(l, w) ==
    LET o == SentinelOf(w)
        a == [l EXCEPT !.node[Sentinel].next = l.node[o].next,
                       !.node[Sentinel].prev = l.node[o].prev]
        b == [a EXCEPT !.node[a.node[Sentinel].next].prev = Sentinel]
    IN [b EXCEPT !.node[b.node[Sentinel].prev].next = Sentinel]

\* other.reset_to_empty(), other being list w; and the three assignments
\* that end the move operations of src/unnamed/part_000.
List_resetOther(l, w) ==
    [l EXCEPT !.node[SentinelOf(w)].next = SentinelOf(w),
              !.node[SentinelOf(w)].prev = SentinelOf(w),
              !.sizes[w] = 0]

\* _sentinel(): the default member initializers of NodeBase.
List_rawSentinel(l) ==
    [l EXCEPT !.node[Sentinel] =
                 [prev |-> NullNode, next |-> NullNode, value |-> Raw, live |-> TRUE]]

\* src/List.h: List(List&& other), this being list 0 and other list w.
List_move(l, w) ==
    LET a == [List_rawSentinel(l) EXCEPT !._size = l.sizes[w]]
        b == IF a._size > 0 THEN List_takeNodes(a, w)
             ELSE [a EXCEPT !.node[Sentinel].next = Sentinel,
                            !.node[Sentinel].prev = Sentinel]
    IN List_resetOther(b, w)

\* src/List.h: operator=(List&& other) with this # &other
List_moveAssign(l, w) ==
    LET a == [List_clear(l) EXCEPT !._size = l.sizes[w]]
        b == IF a._size > 0 THEN List_takeNodes(a, w)
             ELSE [a EXCEPT !.node[Sentinel].next = Sentinel,
                            !.node[Sentinel].prev = Sentinel]
    IN List_resetOther(b, w)

\* src/unnamed/part_000: List(List&& other)
List2_move(l, w) ==
    LET a == [List_rawSentinel(l) EXCEPT !._size = 0]
        b == IF l.sizes[w] # 0
             THEN [List_takeNodes(a, w) EXCEPT !._size = l.sizes[w]]
             ELSE a
    IN List_resetOther(b, w)

\* src/unnamed/part_000: operator=(List&& other) with this # &other
List2_moveAssign(l, w) ==
    LET a == List2_clear(l)
        b == IF l.sizes[w] # 0
             THEN [List_takeNodes(a, w) EXCEPT !._size = l.sizes[w]]
             ELSE a
    IN List_resetOther(b, w)

-----------------------------------------------------------------------------
(* Two Lists under test. abs.A and abs.B are the sequences of the values   *)
(* the lists should hold. No call is followed on lists whose links a call  *)
(* has broken: such a call walks through the storage of other objects.     *)

\* Both lists are rings on their own sentinels.
Lists_Sound(l) == List_Ring(l) /\ List_Ring(List_As(l, "B"))

\* The nodes named in the order A's nodes, B's nodes, the storage of neither.
Lists_Renamed(l) ==
    LET fa == List_Forward(l)
        fb == List_Forward(List_As(l, "B"))
        used == {fa[i] : i \in 1..Len(fa)} \cup {fb[i] : i \in 1..Len(fb)}
        order == fa \o fb \o Ascending(NodeIds \ used)
        name(n) == IF n \in NodeIds THEN CHOOSE i \in 1..Len(order) : order[i] = n ELSE n
        moved(r) == [r EXCEPT !.prev = name(r.prev), !.next = name(r.next)]
    IN IF ~Lists_Sound(l) \/ Len(order) # MaxNodes THEN l
       ELSE [l EXCEPT !.node = [n \in PairIds |->
                                   IF n \in NodeIds THEN moved(l.node[order[n]])
                                   ELSE moved(l.node[n])]]

\* In a call on list w, the other of A and B is list "B" as w sees the store.
TheOther == "B"

InitLists ==
    /\ class = "Lists"
    /\ impl \in ListImpls
    /\ \E la \in SeqsUpTo(Elems, MaxList), lb \in SeqsUpTo(Elems, MaxList) :
          /\ Len(la) + Len(lb) <= MaxNodes
          /\ list = Lists_Renamed(
                      IF impl = "List.h"
                      THEN List_On(List_pushAll(List_Pair, la), "B",
                                   LAMBDA v : List_pushAll(v, lb))
                      ELSE List_On(List2_pushAll(List_Pair, la), "B",
                                   LAMBDA v : List2_pushAll(v, lb)))
          /\ abs = [A |-> la, B |-> lb]
    /\ queue = Unused /\ pq = Unused /\ stack = Unused /\ vec = Unused /\ rhs = Unused
    /\ op = "new" /\ err = "none" /\ ret = Raw /\ ub = "none" /\ arg = << >> /\ orphan = << >>
    /\ pre = [count |-> 0, capacity |-> 0, front |-> 0]

Lists_Live(l) == Cardinality({n \in NodeIds : l.node[n].live})

\* List w(o), o the other list: w is constructed anew where an empty list
\* was.
Lists_CopyConstruct(w) ==
    /\ Running("Lists") /\ Lists_Sound(list)
    /\ List_SizeOf(list, w) = 0
    /\ Lists_Live(list) + List_SizeOf(list, OtherList(w)) <= MaxNodes
    /\ list' = Lists_Renamed(List_On(list, w,
                  LAMBDA v : IF impl = "List.h" THEN List_copy(v, TheOther)
                             ELSE List2_copy(v, TheOther)))
    /\ abs' = [abs EXCEPT ![w] = abs[OtherList(w)]]
    /\ CalledWith("copy", <<w>>, "none", Raw)
    /\ UNCHANGED ub /\ Others("Lists")

\* w = o, o the other list.
Lists_CopyAssign(w) ==
    /\ Running("Lists") /\ Lists_Sound(list)
    /\ Lists_Live(list) + List_SizeOf(list, OtherList(w)) <= MaxNodes
    /\ LET done == IF impl = "List.h" THEN List_copyAssign(List_As(list, w), TheOther)
                   ELSE List2_copyAssign(List_As(list, w), TheOther)
       IN /\ list' = Lists_Renamed(List_As(done.list, w))
          /\ ub' = IF done.wild THEN "destroy of a sentinel" ELSE "none"
    /\ abs' = [abs EXCEPT ![w] = abs[OtherList(w)]]
    /\ CalledWith("copy_assign", <<w>>, "none", Raw)
    /\ Others("Lists")

\* w.push_back(x)
Lists_PushBack(w, x) ==
    /\ Running("Lists") /\ Lists_Sound(list)
    /\ Lists_Live(list) < MaxNodes
    /\ list' = Lists_Renamed(List_On(list, w,
                  LAMBDA v : IF impl = "List.h" THEN List_emplace_back(v, x)
                             ELSE List2_push_back(v, x)))
    /\ abs' = [abs EXCEPT ![w] = Append(@, x)]
    /\ CalledWith("push_back", <<w>>, "none", Raw)
    /\ UNCHANGED ub /\ Others("Lists")

\* w.pop_front() on a list that is not empty.
Lists_PopFront(w) ==
    /\ Running("Lists") /\ Lists_Sound(list)
    /\ List_SizeOf(list, w) > 0
    /\ list' = Lists_Renamed(List_On(list, w,
                  LAMBDA v : IF impl = "List.h" THEN List_pop_front(v)
                             ELSE List2_pop_front(v)))
    /\ abs' = [abs EXCEPT ![w] = Tail(@)]
    /\ CalledWith("pop_front", <<w>>, "none", Raw)
    /\ UNCHANGED ub /\ Others("Lists")

\* w.clear()
Lists_Clear(w) ==
    /\ Running("Lists") /\ Lists_Sound(list)
    /\ list' = Lists_Renamed(List_On(list, w,
                  LAMBDA v : IF impl = "List.h" THEN List_clear(v) ELSE List2_clear(v)))
    /\ abs' = [abs EXCEPT ![w] = << >>]
    /\ CalledWith("clear", <<w>>, "none", Raw)
    /\ UNCHANGED ub /\ Others("Lists")

\* List w(std::move(o)), o the other list: w is constructed anew where an
\* empty list was.
Lists_MoveConstruct(w) ==
    /\ Running("Lists") /\ Lists_Sound(list)
    /\ List_SizeOf(list, w) = 0
    /\ list' = Lists_Renamed(List_On(list, w,
                  LAMBDA v : IF impl = "List.h" THEN List_move(v, TheOther)
                             ELSE List2_move(v, TheOther)))
    /\ abs' = [abs EXCEPT ![w] = abs[OtherList(w)], ![OtherList(w)] = << >>]
    /\ CalledWith("move", <<w>>, "none", Raw)
    /\ UNCHANGED ub /\ Others("Lists")

\* w = std::move(o), o the other list.
Lists_MoveAssign(w) ==
    /\ Running("Lists") /\ Lists_Sound(list)
    /\ list' = Lists_Renamed(List_On(list, w,
                  LAMBDA v : IF impl = "List.h" THEN List_moveAssign(v, TheOther)
                             ELSE List2_moveAssign(v, TheOther)))
    /\ abs' = [abs EXCEPT ![w] = abs[OtherList(w)], ![OtherList(w)] = << >>]
    /\ CalledWith("move_assign", <<w>>, "none", Raw)
    /\ UNCHANGED ub /\ Others("Lists")

NextLists ==
    \/ \E w \in PairNames : Lists_MoveConstruct(w)
    \/ \E w \in PairNames : Lists_MoveAssign(w)
    \/ \E w \in PairNames : Lists_CopyConstruct(w)
    \/ \E w \in PairNames : Lists_CopyAssign(w)
    \/ \E w \in PairNames, x \in Elems : Lists_PushBack(w, x)
    \/ \E w \in PairNames : Lists_PopFront(w)
    \/ \E w \in PairNames : Lists_Clear(w)

SpecLists == InitLists /\ [][NextLists]_vars

\* C24: List, both variants: a copy construction of w from o and a copy
\* assignment w = o, either of them empty or not, leave w with o's elements
\* in o's order and o's size, leave o as it was, and leave both lists rings
\* on their own sentinels; a push_back, pop_front or clear of one of the
\* lists afterwards leaves the elements of the other as they were.
C24_Copy ==
    [][class = "Lists" =>
        LET w == arg'[1]
            o == OtherList(w)
        IN /\ op' \in {"copy", "copy_assign"} =>
                /\ ub' = "none"
                /\ List_ValuesOf(list', w) = List_ValuesOf(list, o)
                /\ List_ValuesOf(list', o) = List_ValuesOf(list, o)
                /\ List_SizeOf(list', w) = List_SizeOf(list, o)
                /\ List_SizeOf(list', o) = List_SizeOf(list, o)
                /\ Lists_Sound(list')
           /\ op' \in {"push_back", "pop_front", "clear"} =>
                /\ List_ValuesOf(list', o) = List_ValuesOf(list, o)
                /\ List_SizeOf(list', o) = List_SizeOf(list, o)
                /\ Lists_Sound(list')]_vars

\* C24 for the copy constructions of both variants, the copy assignments of
\* src/unnamed/part_000, and the copy assignments of src/List.h between two
\* lists that are both empty or both not.
C24_UnlessSwappedWithEmpty ==
    [][(class = "Lists"
        /\ (op' = "copy_assign" /\ impl = "List.h" =>
              (list._size = 0 <=> list.sizes.B = 0))) =>
        LET w == arg'[1]
            o == OtherList(w)
        IN /\ op' \in {"copy", "copy_assign"} =>
                /\ ub' = "none"
                /\ List_ValuesOf(list', w) = List_ValuesOf(list, o)
                /\ List_ValuesOf(list', o) = List_ValuesOf(list, o)
                /\ List_SizeOf(list', w) = List_SizeOf(list, o)
                /\ List_SizeOf(list', o) = List_SizeOf(list, o)
                /\ Lists_Sound(list')
           /\ op' \in {"push_back", "pop_front", "clear"} =>
                /\ List_ValuesOf(list', o) = List_ValuesOf(list, o)
                /\ List_SizeOf(list', o) = List_SizeOf(list, o)
                /\ Lists_Sound(list')]_vars

\* The lists hold the values of abs while their links are sound.
ListsRefine ==
    (class = "Lists" /\ Lists_Sound(list)) =>
        List_ValuesOf(list, "A") = abs.A /\ List_ValuesOf(list, "B") = abs.B

-----------------------------------------------------------------------------
(* Two Queues: construction from a list, copy, move and comparison.        *)

\* Queue(std::initializer_list<T> ilist), src/unnamed/part_002
Queue_FromList(ilist) ==
    LET c == Queue_Queue(Len(ilist))
    IN [c EXCEPT !.mData = uninitialized_move_n(ListBuf(ilist), 0, Len(ilist), c.mData, 0),
                 !.mCount = Len(ilist),
                 !.mRear = IF Len(ilist) = c.mCapacity THEN 0 ELSE Len(ilist)]

\* Queue(std::initializer_list<T> ilist), src/LinkedList.h, of a list that is
\* not empty; of an empty list mRear's initializer divides by zero.
Queue2_FromList(ilist) ==
    [mData |-> uninitialized_move_n(ListBuf(ilist), 0, Len(ilist), Alloc(Len(ilist)), 0),
     mFront |-> 0,
     mRear |-> Len(ilist) % Len(ilist),
     mCount |-> Len(ilist),
     mCapacity |-> Len(ilist)]
\* What that constructor has initialized when the division returns 0.
Queue2_FromEmptyList ==
    [mData |-> Alloc(0), mFront |-> 0, mRear |-> 0, mCount |-> 0, mCapacity |-> 0]

\* operator=(Queue&& other): what it leaves in *this and in other.  The
\* storage *this had is released by cleanup / clearAndDeallocate.
Queue_MoveAssign(this, other) == [this |-> other, other |-> Queue_Moved]
Queue2_MoveAssign(this, other) == [this |-> other, other |-> Queue_Moved]

\* The indices i < mCount at which the loops of operator<=> and operator==
\* find different elements; the loops return at the least of them.
Queue_Differ(a, b) ==
    {i \in 0..(a.mCount - 1) :
        Load(a.mData, (a.mFront + i) % a.mCapacity)
            # Load(b.mData, (b.mFront + i) % b.mCapacity)}
Least(S) == CHOOSE i \in S : \A j \in S : i <= j

\* operator== that compares the slots from 0, not from mFront.
Queue_Equal_FromZero(a, b) ==
    a.mCount = b.mCount
        /\ \A i \in 0..(a.mCount - 1) : Load(a.mData, i) = Load(b.mData, i)

\* operator<=>, src/unnamed/part_002
Queue_Compare(a, b) ==
    IF a.mCount # b.mCount THEN ThreeWay(a.mCount, b.mCount)
    ELSE IF Queue_Differ(a, b) = {} THEN "equal"
    ELSE LET i == Least(Queue_Differ(a, b))
         IN ThreeWay(Load(a.mData, (a.mFront + i) % a.mCapacity),
                     Load(b.mData, (b.mFront + i) % b.mCapacity))
\* operator==, src/unnamed/part_002
Queue_Equal(a, b) ==
    IF a.mCount # b.mCount THEN FALSE ELSE Queue_Differ(a, b) = {}

\* operator<=>, src/LinkedList.h
Queue2_Compare(a, b) ==
    IF a.mCount # b.mCount THEN ThreeWay(a.mCount, b.mCount)
    ELSE IF Queue_Differ(a, b) = {} THEN "equal"
    ELSE LET i == Least(Queue_Differ(a, b))
         IN ThreeWay(Load(a.mData, (a.mFront + i) % a.mCapacity),
                     Load(b.mData, (b.mFront + i) % b.mCapacity))
\* operator==, src/LinkedList.h
Queue2_Equal(a, b) ==
    IF a.mCount # b.mCount THEN FALSE ELSE Queue_Differ(a, b) = {}

-----------------------------------------------------------------------------
(* Two Queues under test: a is `queue`, b is `rhs`.                        *)

\* A queue of a pair is enqueued to while it holds fewer elements than there
\* are element values: two different elements in both orders, a repeated
\* element, and sequences of different lengths all occur.
MaxPair == Cardinality(Elems)

QGet(w) == IF w = "A" THEN queue ELSE rhs
\* The queue w becomes q and the other one o.
QSet(w, q, o) ==
    IF w = "A" THEN queue' = q /\ rhs' = o ELSE rhs' = q /\ queue' = o
Q_Copy(q) == IF impl = "part_002" THEN Queue_Copy(q) ELSE Queue2_Copy(q)

\* Queue a{...}; Queue b(c);
InitQueues ==
    /\ class = "Queues"
    /\ impl \in QueueImpls
    /\ \E l \in SeqsUpTo(Elems, MaxList) :
          /\ arg = l
          /\ abs = [A |-> l, B |-> << >>]
          /\ IF impl = "part_002"
             THEN queue = Queue_FromList(l) /\ ub = "none"
             ELSE IF l # << >>
                  THEN queue = Queue2_FromList(l) /\ ub = "none"
                  ELSE queue = Queue2_FromEmptyList /\ ub = "modulo by zero"
    /\ \E c \in 0..MaxInitCap :
          rhs = IF impl = "part_002" THEN Queue_Queue(c) ELSE Queue2_Queue(c)
    /\ pq = Unused /\ stack = Unused /\ vec = Unused /\ list = Unused
    /\ op = "list" /\ err = "none" /\ ret = Raw /\ orphan = << >>
    /\ pre = [count |-> 0, capacity |-> 0, front |-> 0]

Queues_Enqueue(w, v) ==
    /\ Running("Queues") /\ QGet(w).mCount < MaxPair
    /\ LET e == Q_ensureCapacity(QGet(w), QGet(w).mCount + 1)
       IN InBuf(e.mData, e.mRear)
    /\ QSet(w, Q_Emplace(QGet(w), v), QGet(OtherList(w)))
    /\ abs' = [abs EXCEPT ![w] = Append(@, v)]
    /\ CalledWith("Enqueue", <<w>>, "none", Raw)
    /\ UNCHANGED ub /\ Alone("Queues")

\* Enqueue(v) whose construct_at targets no storage: undefined behaviour.
Queues_EnqueueNull(w, v) ==
    /\ Running("Queues") /\ QGet(w).mCount < MaxPair
    /\ LET e == Q_ensureCapacity(QGet(w), QGet(w).mCount + 1)
       IN ~InBuf(e.mData, e.mRear)
    /\ \/ QSet(w, QGet(w), QGet(OtherList(w))) /\ abs' = abs
       \/ /\ QSet(w, Q_Emplace(QGet(w), v), QGet(OtherList(w)))
          /\ abs' = [abs EXCEPT ![w] = Append(@, v)]
    /\ CalledWith("Enqueue", <<w>>, "none", Raw)
    /\ ub' = "null store" /\ Alone("Queues")

Queues_Dequeue(w) ==
    /\ Running("Queues") /\ ~Q_checkEmpty(QGet(w))
    /\ QSet(w, IF impl = "part_002" THEN Queue_Dequeue(QGet(w))
               ELSE Queue2_Dequeue(QGet(w)), QGet(OtherList(w)))
    /\ abs' = [abs EXCEPT ![w] = RemoveFirst(@)]
    /\ Called("Dequeue", "none", Raw)
    /\ UNCHANGED ub /\ Alone("Queues")

Queues_Reserve(w, n) ==
    /\ Running("Queues")
    /\ QSet(w, IF impl = "part_002" THEN Queue_Reserve(QGet(w), n)
               ELSE Queue2_Reserve(QGet(w), n), QGet(OtherList(w)))
    /\ Called("Reserve", "none", Raw)
    /\ UNCHANGED <<abs, ub>> /\ Alone("Queues")

Queues_Shrink(w) ==
    /\ Running("Queues")
    /\ QSet(w, IF impl = "part_002" THEN Queue_Shrink(QGet(w))
               ELSE Queue2_Shrink(QGet(w)), QGet(OtherList(w)))
    /\ Called("Shrink", "none", Raw)
    /\ UNCHANGED <<abs, ub>> /\ Alone("Queues")

\* { Queue c(other); ... }: the queue w ends and a copy of the other one takes
\* its name.
Queues_CopyConstruct(w) ==
    /\ Running("Queues")
    /\ QSet(w, Q_Copy(QGet(OtherList(w))), QGet(OtherList(w)))
    /\ abs' = [abs EXCEPT ![w] = abs[OtherList(w)]]
    /\ CalledWith("Copy", <<w>>, "none", Raw)
    /\ UNCHANGED ub /\ Alone("Queues")

\* w = other: Queue temp(other); Swap(temp); temp's destructor releases what
\* w held.
Queues_CopyAssign(w) ==
    /\ Running("Queues")
    /\ QSet(w, Q_Copy(QGet(OtherList(w))), QGet(OtherList(w)))
    /\ abs' = [abs EXCEPT ![w] = abs[OtherList(w)]]
    /\ CalledWith("CopyAssign", <<w>>, "none", Raw)
    /\ UNCHANGED ub /\ Alone("Queues")

\* { Queue c(std::move(other)); ... }: c takes the five fields of other.
Queues_MoveConstruct(w) ==
    /\ Running("Queues")
    /\ QSet(w, QGet(OtherList(w)), Queue_Moved)
    /\ abs' = [abs EXCEPT ![w] = abs[OtherList(w)], ![OtherList(w)] = << >>]
    /\ CalledWith("Move", <<w>>, "none", Raw)
    /\ UNCHANGED ub /\ Alone("Queues")

\* w = std::move(other)
Queues_MoveAssign(w) ==
    /\ Running("Queues")
    /\ LET m == IF impl = "part_002"
                THEN Queue_MoveAssign(QGet(w), QGet(OtherList(w)))
                ELSE Queue2_MoveAssign(QGet(w), QGet(OtherList(w)))
       IN QSet(w, m.this, m.other)
    /\ abs' = [abs EXCEPT ![w] = abs[OtherList(w)], ![OtherList(w)] = << >>]
    /\ CalledWith("MoveAssign", <<w>>, "none", Raw)
    /\ UNCHANGED ub /\ Alone("Queues")

\* a == b
Queues_Equal ==
    /\ Running("Queues")
    /\ CalledWith("Equal", << >>, "none",
                  IF impl = "part_002" THEN Queue_Equal(queue, rhs)
                  ELSE Queue2_Equal(queue, rhs))
    /\ UNCHANGED <<queue, rhs, abs, ub>> /\ Alone("Queues")

\* a <=> b
Queues_Compare ==
    /\ Running("Queues")
    /\ CalledWith("Compare", << >>, "none",
                  IF impl = "part_002" THEN Queue_Compare(queue, rhs)
                  ELSE Queue2_Compare(queue, rhs))
    /\ UNCHANGED <<queue, rhs, abs, ub>> /\ Alone("Queues")

NextQueues ==
    \/ \E w \in ListNames, v \in Elems : Queues_Enqueue(w, v)
    \/ \E w \in ListNames, v \in Elems : Queues_EnqueueNull(w, v)
    \/ \E w \in ListNames : Queues_Dequeue(w)
    \/ \E n \in 0..MaxReserve : Queues_Reserve("A", n)
    \/ Queues_Shrink("A")
    \/ \E w \in ListNames : Queues_CopyConstruct(w)
    \/ \E w \in ListNames : Queues_CopyAssign(w)
    \/ \E w \in ListNames : Queues_MoveConstruct(w)
    \/ \E w \in ListNames : Queues_MoveAssign(w)
    \/ Queues_Equal
    \/ Queues_Compare

SpecQueues == InitQueues /\ [][NextQueues]_vars

\* Each queue holds, front to rear, the elements enqueued and not dequeued.
QueuesRefine ==
    (class = "Queues" /\ ub = "none") =>
        Queue_Logical(queue) = abs.A /\ Queue_Logical(rhs) = abs.B

\* mRear is the slot after the last element, around the end of the storage.
Queue_RearConsistent(q) ==
    q.mRear = IF q.mCapacity = 0 THEN 0 ELSE (q.mFront + q.mCount) % q.mCapacity

\* c is what a copy of s has to be.
Queue_IsCopy(c, s) ==
    /\ Queue_Logical(c) = Queue_Logical(s)
    /\ c.mFront = 0
    /\ c.mCapacity = c.mCount
    /\ Queue_RearConsistent(c)

\* C25: Queue, both variants: a copy constructed from or assigned from a
\* queue holds the source's elements in the source's front-to-rear order, has
\* mFront = 0, mCapacity = mCount and mRear at the slot after its last element
\* around the end; the source is left as it was; and an Enqueue or Dequeue on
\* one of the two queues changes nothing of the other.
C25_QueueCopy ==
    [][/\ (class = "Queues" /\ op' \in {"Copy", "CopyAssign"}) =>
            IF arg' = <<"A">>
            THEN Queue_IsCopy(queue', rhs) /\ rhs' = rhs
            ELSE Queue_IsCopy(rhs', queue) /\ queue' = queue
       /\ (class = "Queues" /\ op' \in {"Enqueue", "Dequeue"}) =>
            queue' = queue \/ rhs' = rhs]_vars

\* A copy has been made of a full queue whose elements wrap around the end of
\* its storage.
C25_Witness ==
    /\ class = "Queues" /\ op = "Copy" /\ arg = <<"B">>
    /\ queue.mFront > 0 /\ queue.mCount = queue.mCapacity /\ queue.mCount > 1
    /\ queue.mData.slot[1] # queue.mData.slot[2]
    /\ rhs.mCount = queue.mCount

\* C27: Queue, both variants: a == b is true exactly when the two queues have
\* the same count and equal elements at every index counted from the front,
\* whatever their mFront, mRear and mCapacity are.
C27_QueueEquality ==
    (class = "Queues" /\ op = "Equal") =>
        ret = (Queue_Logical(queue) = Queue_Logical(rhs))

\* Two queues with different mFront and different mCapacity have compared
\* equal with two elements each.
C27_Witness ==
    /\ class = "Queues" /\ op = "Equal" /\ ret = TRUE
    /\ queue.mCount > 1
    /\ queue.mFront # rhs.mFront /\ queue.mCapacity # rhs.mCapacity

\* The lexicographic order of two sequences: the first index at which they
\* differ decides, and the shorter of a sequence and its extension is less.
RECURSIVE Lexicographic(_, _)
Lexicographic(s, t) ==
    IF s = << >> /\ t = << >> THEN "equal"
    ELSE IF s = << >> THEN "less"
    ELSE IF t = << >> THEN "greater"
    ELSE IF Head(s) # Head(t) THEN ThreeWay(Head(s), Head(t))
    ELSE Lexicographic(Tail(s), Tail(t))

\* C28: Queue, both variants: a <=> b is the lexicographic order of the two
\* front-to-rear sequences: the first index with different elements decides,
\* and the lengths decide only when one sequence is a prefix of the other.
C28_QueueOrdering ==
    (class = "Queues" /\ op = "Compare") =>
        ret = Lexicographic(Queue_Logical(queue), Queue_Logical(rhs))

\* The same of two queues of one length.
C28_OfOneLength ==
    (class = "Queues" /\ op = "Compare" /\ queue.mCount = rhs.mCount) =>
        ret = Lexicographic(Queue_Logical(queue), Queue_Logical(rhs))

\* a <=> b of two queues of different lengths is the order of the lengths.
C28_LengthFirst ==
    (class = "Queues" /\ op = "Compare" /\ queue.mCount # rhs.mCount) =>
        ret = ThreeWay(queue.mCount, rhs.mCount)

\* C30: Queue, both variants: construction from a literal sequence of any
\* length n >= 0 completes and gives mCount = n, mFront = 0, mRear at the slot
\* after the last element around the end (0 or n), and the sequence front to
\* rear.
C30_QueueFromList ==
    (class = "Queues" /\ op = "list") =>
        /\ ub = "none"
        /\ queue.mCount = Len(arg) /\ queue.mFront = 0
        /\ Queue_RearConsistent(queue)
        /\ Queue_Logical(queue) = arg

\* The same of a sequence that is not empty, and of the part_002 variant.
C30_UnlessEmptyList ==
    (class = "Queues" /\ op = "list" /\ (arg # << >> \/ impl = "part_002")) =>
        /\ ub = "none"
        /\ queue.mCount = Len(arg) /\ queue.mFront = 0
        /\ Queue_RearConsistent(queue)
        /\ Queue_Logical(queue) = arg

-----------------------------------------------------------------------------
(* Two Stacks: move and comparison, src/Stack.h                            *)

\* What Stack(Stack&& other) and operator=(Stack&&) leave in other.
Stack_Moved == [mData |-> NullPtr, mCount |-> 0, mCapacity |-> 0]

\* operator=(Stack&& other): what it leaves in *this and in other.  The
\* storage *this had is released by clearAndDeallocate.
Stack_MoveAssign(this, other) == [this |-> other, other |-> Stack_Moved]

\* std::lexicographical_compare_three_way(mData, mData + mCount,
\* other.mData, other.mData + other.mCount), from index i on.
RECURSIVE Stack_CompareFrom(_, _, _)
Stack_CompareFrom(a, b, i) ==
    IF i = a.mCount THEN (IF i = b.mCount THEN "equal" ELSE "less")
    ELSE IF i = b.mCount THEN "greater"
    ELSE IF Load(a.mData, i) # Load(b.mData, i)
         THEN ThreeWay(Load(a.mData, i), Load(b.mData, i))
         ELSE Stack_CompareFrom(a, b, i + 1)

\* operator<=> that is decided by the counts when they differ.
Stack_Compare_CountFirst(a, b) ==
    IF a.mCount # b.mCount THEN ThreeWay(a.mCount, b.mCount)
    ELSE Stack_CompareFrom(a, b, 0)

\* operator<=>
Stack_Compare(a, b) == Stack_CompareFrom(a, b, 0)

\* operator==: mCount == other.mCount && std::equal(...)
Stack_Equal(a, b) ==
    a.mCount = b.mCount
        /\ \A i \in 0..(a.mCount - 1) : Load(a.mData, i) = Load(b.mData, i)

-----------------------------------------------------------------------------
(* Two Stacks under test: a is `stack`, b is `rhs`.                        *)

SGet(w) == IF w = "A" THEN stack ELSE rhs
\* The stack w becomes s and the other one o.
SSet(w, s, o) ==
    IF w = "A" THEN stack' = s /\ rhs' = o ELSE rhs' = s /\ stack' = o

\* Stack a{...}; Stack b(c);
InitStacks ==
    /\ class = "Stacks"
    /\ impl = "Stack.h"
    /\ \E l \in SeqsUpTo(Elems, MaxList) :
          stack = Stack_FromList(l) /\ arg = l /\ abs = [A |-> l, B |-> << >>]
    /\ \E c \in 0..MaxInitCap : rhs = Stack_Stack(c)
    /\ queue = Unused /\ pq = Unused /\ vec = Unused /\ list = Unused
    /\ op = "list" /\ err = "none" /\ ret = Raw /\ ub = "none" /\ orphan = << >>
    /\ pre = [count |-> 0, capacity |-> 0, front |-> 0]

Stacks_Push(w, v) ==
    /\ Running("Stacks") /\ SGet(w).mCount < MaxList
    /\ SSet(w, Stack_Emplace(SGet(w), v), SGet(OtherList(w)))
    /\ abs' = [abs EXCEPT ![w] = Append(@, v)]
    /\ CalledWith("Push", <<w>>, "none", Raw)
    /\ UNCHANGED ub /\ Alone("Stacks")

Stacks_Pop(w) ==
    /\ Running("Stacks") /\ ~Stack_checkEmpty(SGet(w))
    /\ SSet(w, Stack_Pop(SGet(w)), SGet(OtherList(w)))
    /\ abs' = [abs EXCEPT ![w] = RemoveLast(@)]
    /\ CalledWith("Pop", <<w>>, "none", Raw)
    /\ UNCHANGED ub /\ Alone("Stacks")

\* { Stack c(std::move(other)); ... }: c takes the three fields of other.
Stacks_MoveConstruct(w) ==
    /\ Running("Stacks")
    /\ SSet(w, SGet(OtherList(w)), Stack_Moved)
    /\ abs' = [abs EXCEPT ![w] = abs[OtherList(w)], ![OtherList(w)] = << >>]
    /\ CalledWith("Move", <<w>>, "none", Raw)
    /\ UNCHANGED ub /\ Alone("Stacks")

\* w = std::move(other)
Stacks_MoveAssign(w) ==
    /\ Running("Stacks")
    /\ LET m == Stack_MoveAssign(SGet(w), SGet(OtherList(w)))
       IN SSet(w, m.this, m.other)
    /\ abs' = [abs EXCEPT ![w] = abs[OtherList(w)], ![OtherList(w)] = << >>]
    /\ CalledWith("MoveAssign", <<w>>, "none", Raw)
    /\ UNCHANGED ub /\ Alone("Stacks")

\* a == b
Stacks_Equal ==
    /\ Running("Stacks")
    /\ CalledWith("Equal", <<"A">>, "none", Stack_Equal(stack, rhs))
    /\ UNCHANGED <<stack, rhs, abs, ub>> /\ Alone("Stacks")

\* a <=> b
Stacks_Compare ==
    /\ Running("Stacks")
    /\ CalledWith("Compare", <<"A">>, "none", Stack_Compare(stack, rhs))
    /\ UNCHANGED <<stack, rhs, abs, ub>> /\ Alone("Stacks")

NextStacks ==
    \/ \E w \in ListNames, v \in Elems : Stacks_Push(w, v)
    \/ \E w \in ListNames : Stacks_Pop(w)
    \/ \E w \in ListNames : Stacks_MoveConstruct(w)
    \/ \E w \in ListNames : Stacks_MoveAssign(w)
    \/ Stacks_Equal
    \/ Stacks_Compare

SpecStacks == InitStacks /\ [][NextStacks]_vars

\* Each stack holds, bottom to top, the elements pushed and not popped.
StacksRefine ==
    class = "Stacks" => Stack_Elements(stack) = abs.A /\ Stack_Elements(rhs) = abs.B

-----------------------------------------------------------------------------
(* Two Stacks or two LinkedLists under comparison.                         *)

InitOrdered == InitStacks \/ InitLinkedList
NextOrdered == NextStacks \/ NextLinkedList
SpecOrdered == InitOrdered /\ [][NextOrdered]_vars

\* The two sequences of the pair under test, the first being the one the
\* last call was made on.
Ordered_This ==
    IF class = "Stacks" THEN Stack_Elements(stack)
    ELSE LinkedList_Values(list, arg[1])
Ordered_Other ==
    IF class = "Stacks" THEN Stack_Elements(rhs)
    ELSE LinkedList_Values(list, OtherList(arg[1]))

\* C29: Stack (bottom to top) and LinkedList (head to tail): a <=> b is the
\* lexicographic order of the two sequences, the shorter of a sequence and
\* its extension being less; a == b is the equality of the two sequences,
\* so a <=> b is equal exactly when a == b.
C29_Ordering ==
    (class \in {"Stacks", "LinkedList"}) =>
        /\ op = "Compare" => ret = Lexicographic(Ordered_This, Ordered_Other)
        /\ op = "Equal" => ret = (Ordered_This = Ordered_Other)
        /\ class = "Stacks" =>
              Stack_Equal(stack, rhs) = (Stack_Compare(stack, rhs) = "equal")
        /\ class = "LinkedList" =>
              LinkedList_Equal(list, "A") = (LinkedList_Compare(list, "A") = "equal")

\* Two stacks of different lengths have been ordered by their first
\* elements, against the order of their lengths.
C29_Witness ==
    /\ class = "Stacks" /\ op = "Compare" /\ ret = "less"
    /\ stack.mCount > rhs.mCount

\* The same of two LinkedLists.
C29_WitnessLinkedList ==
    /\ class = "LinkedList" /\ op = "Compare" /\ ret = "less"
    /\ list[arg[1]].mCount > list[OtherList(arg[1])].mCount

-----------------------------------------------------------------------------
(* Two Vectors and two PriorityQueues: move.                               *)

\* What Vector(Vector&& other) and operator=(Vector&&) leave in other.
Vector_Moved == [_data |-> NullPtr, _size |-> 0, _capacity |-> 0]
\* operator=(Vector&& other), src/Vector.h and src/unnamed/part_001: what it
\* leaves in *this and in other.  The elements *this had are destroyed and
\* its storage is deallocated.
Vector_MoveAssign(this, other) == [this |-> other, other |-> Vector_Moved]
Vector2_MoveAssign(this, other) == [this |-> other, other |-> Vector_Moved]

\* What PriorityQueue(PriorityQueue&& other) and operator=(PriorityQueue&&)
\* leave in other.
PriorityQueue_Moved ==
    [mData |-> NullPtr, mCount |-> 0, mCapacity |-> 0, log |-> << >>]
PriorityQueue_MoveAssign(this, other) ==
    [this |-> other, other |-> PriorityQueue_Moved]

VGet(w) == IF w = "A" THEN vec ELSE rhs
VSet(w, v, o) == IF w = "A" THEN vec' = v /\ rhs' = o ELSE rhs' = v /\ vec' = o

\* Vector a{...}; Vector b;
InitVectors ==
    /\ class = "Vectors"
    /\ impl \in VectorImpls
    /\ \E l \in SeqsUpTo(Elems, MaxList) :
          /\ vec = IF impl = "Vector.h" THEN Vector_FromList(l) ELSE Vector2_FromList(l)
          /\ arg = l /\ abs = [A |-> l, B |-> << >>]
    /\ rhs = IF impl = "Vector.h" THEN Vector_Vector ELSE Vector2_Vector
    /\ queue = Unused /\ pq = Unused /\ stack = Unused /\ list = Unused
    /\ op = "list" /\ err = "none" /\ ret = Raw /\ ub = "none" /\ orphan = << >>
    /\ pre = [count |-> 0, capacity |-> 0, front |-> 0]

Vectors_PushBack(w, x) ==
    /\ Running("Vectors") /\ VGet(w)._size < MaxPair
    /\ VSet(w, V_push_back(VGet(w), x), VGet(OtherList(w)))
    /\ abs' = [abs EXCEPT ![w] = Append(@, x)]
    /\ CalledWith("push_back", <<w>>, "none", Raw)
    /\ UNCHANGED ub /\ Alone("Vectors")

Vectors_PopBack(w) ==
    /\ Running("Vectors") /\ VGet(w)._size > 0
    /\ VSet(w, V_pop_back(VGet(w)), VGet(OtherList(w)))
    /\ abs' = [abs EXCEPT ![w] = RemoveLast(@)]
    /\ CalledWith("pop_back", <<w>>, "none", Raw)
    /\ UNCHANGED ub /\ Alone("Vectors")

\* { Vector c(std::move(other)); ... }
Vectors_MoveConstruct(w) ==
    /\ Running("Vectors")
    /\ VSet(w, VGet(OtherList(w)), Vector_Moved)
    /\ abs' = [abs EXCEPT ![w] = abs[OtherList(w)], ![OtherList(w)] = << >>]
    /\ CalledWith("Move", <<w>>, "none", Raw)
    /\ UNCHANGED ub /\ Alone("Vectors")

\* w = std::move(other)
Vectors_MoveAssign(w) ==
    /\ Running("Vectors")
    /\ LET m == IF impl = "Vector.h"
                THEN Vector_MoveAssign(VGet(w), VGet(OtherList(w)))
                ELSE Vector2_MoveAssign(VGet(w), VGet(OtherList(w)))
       IN VSet(w, m.this, m.other)
    /\ abs' = [abs EXCEPT ![w] = abs[OtherList(w)], ![OtherList(w)] = << >>]
    /\ CalledWith("MoveAssign", <<w>>, "none", Raw)
    /\ UNCHANGED ub /\ Alone("Vectors")

NextVectors ==
    \/ \E w \in ListNames, x \in Elems : Vectors_PushBack(w, x)
    \/ \E w \in ListNames : Vectors_PopBack(w)
    \/ \E w \in ListNames : Vectors_MoveConstruct(w)
    \/ \E w \in ListNames : Vectors_MoveAssign(w)

PGet(w) == IF w = "A" THEN PQ ELSE [rhs EXCEPT !.log = << >>]
PSet(w, q, o) == IF w = "A" THEN pq' = q /\ rhs' = o ELSE rhs' = q /\ pq' = o

\* PriorityQueue a{...}; PriorityQueue b(c);
InitPriorityQueues ==
    /\ class = "PriorityQueues"
    /\ impl = "PriorityQueue.h"
    /\ \E l \in SeqsUpTo(Elems, MaxList) :
          pq = PriorityQueue_FromList(l) /\ arg = l /\ abs = [A |-> ByRank(l), B |-> << >>]
    /\ \E c \in 0..MaxInitCap : rhs = PriorityQueue_PriorityQueue(c)
    /\ queue = Unused /\ vec = Unused /\ stack = Unused /\ list = Unused
    /\ op = "list" /\ err = "none" /\ ret = Raw /\ ub = "none" /\ orphan = << >>
    /\ pre = [count |-> 0, capacity |-> 0, front |-> 0]

PriorityQueues_Enqueue(w, v) ==
    /\ Running("PriorityQueues") /\ PGet(w).mCount < MaxPair
    /\ PSet(w, PriorityQueue_Emplace(PGet(w), v), PGet(OtherList(w)))
    /\ abs' = [abs EXCEPT ![w] = InsertByRank(@, v)]
    /\ CalledWith("Enqueue", <<w>>, "none", Raw)
    /\ UNCHANGED ub /\ Alone("PriorityQueues")

PriorityQueues_Dequeue(w) ==
    /\ Running("PriorityQueues") /\ ~PriorityQueue_checkEmpty(PGet(w))
    /\ PSet(w, PriorityQueue_Dequeue(PGet(w)), PGet(OtherList(w)))
    /\ abs' = [abs EXCEPT ![w] = RemoveFirst(@)]
    /\ CalledWith("Dequeue", <<w>>, "none", Raw)
    /\ UNCHANGED ub /\ Alone("PriorityQueues")

\* { PriorityQueue c(std::move(other)); ... }
PriorityQueues_MoveConstruct(w) ==
    /\ Running("PriorityQueues")
    /\ PSet(w, PGet(OtherList(w)), PriorityQueue_Moved)
    /\ abs' = [abs EXCEPT ![w] = abs[OtherList(w)], ![OtherList(w)] = << >>]
    /\ CalledWith("Move", <<w>>, "none", Raw)
    /\ UNCHANGED ub /\ Alone("PriorityQueues")

\* w = std::move(other)
PriorityQueues_MoveAssign(w) ==
    /\ Running("PriorityQueues")
    /\ LET m == PriorityQueue_MoveAssign(PGet(w), PGet(OtherList(w)))
       IN PSet(w, m.this, m.other)
    /\ abs' = [abs EXCEPT ![w] = abs[OtherList(w)], ![OtherList(w)] = << >>]
    /\ CalledWith("MoveAssign", <<w>>, "none", Raw)
    /\ UNCHANGED ub /\ Alone("PriorityQueues")

NextPriorityQueues ==
    \/ \E w \in ListNames, v \in Elems : PriorityQueues_Enqueue(w, v)
    \/ \E w \in ListNames : PriorityQueues_Dequeue(w)
    \/ \E w \in ListNames : PriorityQueues_MoveConstruct(w)
    \/ \E w \in ListNames : PriorityQueues_MoveAssign(w)

-----------------------------------------------------------------------------
(* Two containers of one class under test: Vector, List, Queue,            *)
(* PriorityQueue or Stack.                                                 *)

InitMoves ==
    InitVectors \/ InitLists \/ InitQueues \/ InitPriorityQueues \/ InitStacks
NextMoves ==
    NextVectors \/ NextLists \/ NextQueues \/ NextPriorityQueues \/ NextStacks
SpecMoves == InitMoves /\ [][NextMoves]_vars

\* The elements of container w of the pair in the state given by its five
\* objects: index order for Vector, Stack and the PriorityQueue's array,
\* front to rear for Queue, first to last for List.
Pair_Elements(w, v, l, q, p, s, r) ==
    CASE class = "Vectors" -> Vector_Elements(IF w = "A" THEN v ELSE r)
      [] class = "Lists" -> List_ValuesOf(l, w)
      [] class = "Queues" -> Queue_Logical(IF w = "A" THEN q ELSE r)
      [] class = "PriorityQueues" -> PriorityQueue_Elements(IF w = "A" THEN p ELSE r)
      [] class = "Stacks" -> Stack_Elements(IF w = "A" THEN s ELSE r)

\* Container w is empty as a moved-from container has to be.
Pair_Emptied(w, v, l, q, p, s, r) ==
    CASE class = "Vectors" -> (IF w = "A" THEN v ELSE r)._size = 0
      [] class = "Lists" ->
           /\ List_SizeOf(l, w) = 0
           /\ l.node[SentinelOf(w)].next = SentinelOf(w)
           /\ l.node[SentinelOf(w)].prev = SentinelOf(w)
      [] class = "Queues" ->
           LET x == IF w = "A" THEN q ELSE r
           IN x.mCount = 0 /\ x.mFront = 0 /\ x.mRear = 0
      [] class = "PriorityQueues" -> (IF w = "A" THEN p ELSE r).mCount = 0
      [] class = "Stacks" -> (IF w = "A" THEN s ELSE r).mCount = 0

MoveOps == {"Move", "MoveAssign", "move", "move_assign"}
InsertOps == {"push_back", "Enqueue", "Push"}

\* What a move of the other container into container w = arg'[1] has to do.
Pair_Moved ==
    LET w == arg'[1]
        o == OtherList(w)
    IN /\ ub' = "none"
       /\ Pair_Elements(w, vec', list', queue', pq', stack', rhs')
            = Pair_Elements(o, vec, list, queue, pq, stack, rhs)
       /\ Pair_Emptied(o, vec', list', queue', pq', stack', rhs')
       /\ class = "Lists" => Lists_Sound(list')

\* C26: Vector, List, Queue, PriorityQueue, Stack: after b is move-constructed
\* or move-assigned from a, a is empty (size 0; List: the sentinel points to
\* itself; Queue: mFront = mRear = 0), b holds the elements a held in their
\* order, a List b is a ring on its own sentinel, and an insertion made next
\* into a leaves a with the one element inserted.
C26_Move ==
    [][(class \in {"Vectors", "Lists", "Queues", "PriorityQueues", "Stacks"}) =>
          /\ op' \in MoveOps => Pair_Moved
          /\ (op \in MoveOps /\ op' \in InsertOps /\ arg' = <<OtherList(arg[1])>>) =>
                /\ ub' = "none"
                /\ Len(abs'[arg'[1]]) = 1
                /\ Pair_Elements(arg'[1], vec', list', queue', pq', stack', rhs')
                     = abs'[arg'[1]]]_vars

\* C26 for every move but the move construction of a part_000 List from an
\* empty List.
C26_UnlessFromEmptyList ==
    [][(/\ class \in {"Vectors", "Lists", "Queues", "PriorityQueues", "Stacks"}
        /\ ~(/\ class = "Lists" /\ impl = "part_000" /\ op' = "move"
             /\ List_SizeOf(list, OtherList(arg'[1])) = 0)) =>
          /\ op' \in MoveOps => Pair_Moved
          /\ (op \in MoveOps /\ op' \in InsertOps /\ arg' = <<OtherList(arg[1])>>) =>
                /\ ub' = "none"
                /\ Len(abs'[arg'[1]]) = 1
                /\ Pair_Elements(arg'[1], vec', list', queue', pq', stack', rhs')
                     = abs'[arg'[1]]]_vars

-----------------------------------------------------------------------------
(* A Vector or a List under its removals at the ends.                      *)

\* pop_back() on an empty Vector with the assert compiled out: --_size wraps
\* and the destroy is of _data + _size, which is in no storage.
Vector_pop_empty(v) == [v EXCEPT !._size = Wrap(v._size - 1)]
Vector2_pop_empty(v) == [v EXCEPT !._size = Wrap(v._size - 1)]

\* pop_back() on an empty Vector. With the assert compiled in the call
\* aborts the program; with it compiled out the call is undefined and runs on
\* to leave SIZE_MAX in _size.
Vec_PopEmpty ==
    /\ Running("Vector") /\ vec._size = 0
    /\ \/ vec' = vec
       \/ vec' = IF impl = "Vector.h" THEN Vector_pop_empty(vec)
                 ELSE Vector2_pop_empty(vec)
    /\ ub' = "pop on empty"
    /\ Called("pop_back", "none", Raw)
    /\ UNCHANGED abs /\ Others("Vector")

InitPops == InitVector \/ InitList
NextPops ==
    \/ NextVectorBack
    \/ Vec_PopEmpty
    \/ \E x \in Elems : List_PushBack(x)
    \/ \E x \in Elems : List_PushFront(x)
    \/ List_PopBack
    \/ List_PopFront
    \/ \E o \in {"pop_back", "pop_front"} : List_PopEmpty(o)
SpecPops == InitPops /\ [][NextPops]_vars

\* C31: Vector and List, both variants: pop_back on an empty Vector and
\* pop_back and pop_front on an empty List signal Empty to the caller and
\* leave the size and the contents as they were.
C31_EmptyRemoval ==
    [][(class \in {"Vector", "List"} /\ op' \in {"pop_back", "pop_front"} /\ Count = 0) =>
          /\ err' = "Empty" /\ ub' = "none"
          /\ vec' = vec /\ list' = list]_vars

\* C31 for the List of src/List.h alone.
C31_OfListH ==
    [][(class = "List" /\ impl = "List.h" /\ op' \in {"pop_back", "pop_front"}
        /\ Count = 0) =>
          /\ err' = "Empty" /\ ub' = "none"
          /\ list' = list]_vars

-----------------------------------------------------------------------------
(* The growth of the PriorityQueue and of the Stack.                       *)

\* The capacity Vector::push_back leaves a full Vector of capacity c with.
Vector_GrownFrom(c) ==
    Vector_grow([_data |-> IF c = 0 THEN NullPtr ELSE Alloc(c),
                 _size |-> c, _capacity |-> c])._capacity

\* C32: PriorityQueue and Stack: an Enqueue or Push that finds mCount =
\* mCapacity leaves the capacity Vector::push_back chooses for the same old
\* capacity, max(1, 2 * capacity).
C32_VectorGrowth ==
    (class \in {"PriorityQueue", "Stack"} /\ op \in {"Enqueue", "Push"}
     /\ err = "none" /\ pre.count = pre.capacity) =>
        Snapshot.capacity = Vector_GrownFrom(pre.capacity)

\* What ensureCapacity does in place of it: 8 slots for a container that had
\* none, and half as many again, but one more at least, for any other.
C32_HalfAgainFromEight ==
    (class \in {"PriorityQueue", "Stack"} /\ op \in {"Enqueue", "Push"}
     /\ err = "none" /\ pre.count = pre.capacity) =>
        Snapshot.capacity =
            IF pre.capacity = 0 THEN FirstCapacity
            ELSE Max(pre.capacity + 1, pre.capacity + (pre.capacity \div 2))

-----------------------------------------------------------------------------
(* The slots a Queue destroys.                                             *)

\* src/unnamed/part_002: the slots destroyCircular passes to destroy_n.
Queue_destroyCircular_slots(q) ==
    IF q.mData.null \/ q.mCount = 0 THEN {}
    ELSE IF q.mFront < q.mRear THEN q.mFront..(q.mFront + q.mCount - 1)
    ELSE q.mFront..(q.mCapacity - 1) \cup 0..(q.mRear - 1)

\* src/LinkedList.h: the slots Clear passes to destroy_n.
Queue2_Clear_slots(q) ==
    IF q.mData.null THEN {}
    ELSE IF q.mFront < q.mRear THEN q.mFront..(q.mFront + q.mCount - 1)
    ELSE q.mFront..(q.mCapacity - 1) \cup 0..(q.mRear - 1)

\* Whether the call o on q, which left the queue `after`, went through
\* reallocate past its first return: it then destroys what the old storage
\* holds, by cleanup / clearAndDeallocate or by destroyCircular.
Queue_Reallocates(q, o, after) ==
    CASE o = "Reserve" -> after.mCapacity > q.mCapacity
      [] o = "Shrink" -> q.mCapacity > q.mCount
      [] o = "Enqueue" -> q.mCount + 1 > q.mCapacity
      [] OTHER -> FALSE

\* The slots of q's storage that hold an element, moved-from or not.
Queue_Occupied(q) == {i \in 0..(Len(q.mData.slot) - 1) : q.mData.slot[i + 1] # Raw}

\* C33: Queue, both variants: Clear, and every Reserve, Shrink and Enqueue
\* that reallocates, destroy occupied slots only and destroy every occupied
\* slot of the storage they clear or release; Dequeue destroys the occupied
\* slot at mFront.
C33_SlotDiscipline ==
    [][(class = "Queue" /\ ub = "none" /\ ub' = "none") =>
          /\ (op' = "Clear" \/ Queue_Reallocates(queue, op', queue')) =>
                (IF impl = "part_002" THEN Queue_destroyCircular_slots(queue)
                 ELSE Queue2_Clear_slots(queue)) = Queue_Occupied(queue)
          /\ (op' = "Dequeue" /\ err' = "none") => queue.mFront \in Queue_Occupied(queue)]_vars

\* C33 for the part_002 variant alone.
C33_OfPart002 ==
    [][(class = "Queue" /\ impl = "part_002" /\ ub = "none" /\ ub' = "none") =>
          /\ (op' = "Clear" \/ Queue_Reallocates(queue, op', queue')) =>
                Queue_destroyCircular_slots(queue) = Queue_Occupied(queue)
          /\ (op' = "Dequeue" /\ err' = "none") => queue.mFront \in Queue_Occupied(queue)]_vars

-----------------------------------------------------------------------------
(* The Queue's buffer and its capacity.                                    *)

\* mCapacity > 0 means storage of exactly mCapacity slots; released storage
\* means mCapacity = 0.
Queue_BufferMatches(q) ==
    /\ q.mCapacity > 0 => ~q.mData.null /\ Len(q.mData.slot) = q.mCapacity
    /\ q.mData.null => q.mCapacity = 0

\* C34: Queue, both variants: in every state a capacity above 0 comes with
\* allocated storage of exactly that many slots and released storage comes
\* with capacity 0; an Enqueue that follows a Shrink on an empty queue
\* succeeds and leaves its element where Peek reads it.
C34_BufferInvariant ==
    /\ [](class = "Queue" /\ ub = "none" => Queue_BufferMatches(queue))
    /\ [][(class = "Queue" /\ op = "Shrink" /\ queue.mCount = 0 /\ op' = "Enqueue") =>
             /\ ub' = "none" /\ err' = "none"
             /\ Len(abs') = 1 /\ Queue_Logical(queue') = abs'
             /\ Load(queue'.mData, queue'.mFront) = abs'[1]]_vars

\* C34 for the part_002 variant alone.
C34_OfPart002 ==
    /\ [](class = "Queue" /\ impl = "part_002" /\ ub = "none" => Queue_BufferMatches(queue))
    /\ [][(class = "Queue" /\ impl = "part_002" /\ op = "Shrink" /\ queue.mCount = 0
              /\ op' = "Enqueue") =>
             /\ ub' = "none" /\ err' = "none"
             /\ Len(abs') = 1 /\ Queue_Logical(queue') = abs'
             /\ Load(queue'.mData, queue'.mFront) = abs'[1]]_vars

\* The state C34's second half is about: an Enqueue has followed a Shrink on
\* an empty part_002 queue.
C34_ShrunkThenEnqueued ==
    class = "Queue" /\ impl = "part_002" /\ op = "Enqueue" /\ pre.count = 0
        /\ pre.capacity = 0 /\ queue.mCount = 1

-----------------------------------------------------------------------------
(* Two Lists exchanged.                                                    *)

\* src/unnamed/part_000: swap(List& other) with this # &other, this being
\* list 0 and other list w.
List2_swap(l, w) ==
    LET o == SentinelOf(w)
        a == [l EXCEPT !.node[Sentinel].next = l.node[o].next,
                       !.node[o].next = l.node[Sentinel].next]
        b == [a EXCEPT !.node[Sentinel].prev = a.node[o].prev,
                       !.node[o].prev = a.node[Sentinel].prev]
        c == [b EXCEPT !._size = b.sizes[w], !.sizes[w] = b._size]
        d == IF c.node[Sentinel].next # NullNode
             THEN [c EXCEPT !.node[c.node[Sentinel].next].prev = Sentinel] ELSE c
        e == IF d.node[Sentinel].prev # NullNode
             THEN [d EXCEPT !.node[d.node[Sentinel].prev].next = Sentinel] ELSE d
        f == IF e.node[o].next # NullNode
             THEN [e EXCEPT !.node[e.node[o].next].prev = o] ELSE e
    IN IF f.node[o].prev # NullNode
       THEN [f EXCEPT !.node[f.node[o].prev].next = o] ELSE f

\* w.swap(o), o the other list.
Lists_Swap(w) ==
    /\ Running("Lists") /\ Lists_Sound(list)
    /\ list' = Lists_Renamed(List_On(list, w,
                  LAMBDA v : IF impl = "List.h" THEN List_swap(v, TheOther)
                             ELSE List2_swap(v, TheOther)))
    /\ abs' = [abs EXCEPT ![w] = abs[OtherList(w)], ![OtherList(w)] = abs[w]]
    /\ CalledWith("swap", <<w>>, "none", Raw)
    /\ UNCHANGED ub /\ Others("Lists")

NextSwaps ==
    \/ NextLists
    \/ \E w \in PairNames : Lists_Swap(w)

SpecSwaps == InitLists /\ [][NextSwaps]_vars

\* What a swap of lists that were rings on their sentinels has to leave: the
\* sequences and the sizes exchanged, both lists rings on their own
\* sentinels, and every live node on one of the two rings.
Lists_Swapped(before, after, w) ==
    LET o == OtherList(w)
    IN /\ Lists_Sound(after)
       /\ Len(List_Forward(after)) + Len(List_Forward(List_As(after, "B"))) = Lists_Live(after)
       /\ List_ValuesOf(after, w) = List_ValuesOf(before, o)
       /\ List_ValuesOf(after, o) = List_ValuesOf(before, w)
       /\ List_SizeOf(after, w) = List_SizeOf(before, o)
       /\ List_SizeOf(after, o) = List_SizeOf(before, w)

\* C35: List, both variants: swap of two lists, one or both of them empty
\* or neither, exchanges the sequences and the sizes, leaves each list a
\* ring on its own sentinel, and loses no node.
C35_Swap ==
    [][(class = "Lists" /\ op' = "swap") =>
          /\ Lists_Swapped(list, list', arg'[1])
          /\ Lists_Live(list') = Lists_Live(list)]_vars

\* C35 for the swaps of two lists that are both not empty, and for the swaps
\* of src/List.h between two empty lists.
C35_OfTwoWithNodes ==
    [][(class = "Lists" /\ op' = "swap"
        /\ \/ list._size > 0 /\ list.sizes.B > 0
           \/ impl = "List.h" /\ list._size = 0 /\ list.sizes.B = 0) =>
          /\ Lists_Swapped(list, list', arg'[1])
          /\ Lists_Live(list') = Lists_Live(list)]_vars

-----------------------------------------------------------------------------
(* Reserve and Shrink of the Queue.                                        *)

\* mCount <= mCapacity, and with mCapacity > 0 the indices are in range,
\* mRear follows mFront by mCount, and the mCount slots from mFront on are
\* slots of the storage that hold an element.
Queue_RingHolds(q) ==
    /\ q.mCount <= q.mCapacity
    /\ q.mCapacity > 0 =>
         /\ q.mFront < q.mCapacity /\ q.mRear < q.mCapacity
         /\ q.mRear = (q.mFront + q.mCount) % q.mCapacity
         /\ \A i \in 0..(q.mCount - 1) :
              LET k == (q.mFront + i) % q.mCapacity
              IN InBuf(q.mData, k) /\ q.mData.slot[k + 1] # Raw

\* What Reserve and Shrink have to leave of the queue `before`, capacity
\* being the capacity the call has to end with.
Queue_Resized(before, after, capacity) ==
    /\ after.mCount = before.mCount
    /\ Queue_Logical(after) = Queue_Logical(before)
    /\ after.mCapacity = capacity
    /\ after.mCapacity # before.mCapacity => after.mFront = 0
    /\ Queue_RingHolds(after)

\* C36: Queue, both variants: Reserve(n) and Shrink() on a queue whose ring
\* invariant holds, its contents wrapped or not, leave mCount and the
\* elements front to rear as they were; Reserve(n) ends with mCapacity =
\* max(old mCapacity, n) and Shrink() with mCapacity = mCount; a call that
\* changed the capacity leaves mFront = 0; the ring invariant holds after.
C36_ReserveShrink ==
    [][(class = "Queue" /\ ub = "none" /\ Queue_RingHolds(queue)
          /\ (queue.mCapacity > 0 => ~queue.mData.null)) =>
          /\ op' = "Reserve" =>
                Queue_Resized(queue, queue', Max(queue.mCapacity, arg'[1]))
          /\ op' = "Shrink" => Queue_Resized(queue, queue', queue.mCount)]_vars

\* C36 for every Reserve, and for the Shrinks of src/unnamed/part_002 and
\* those of src/LinkedList.h on a queue that is not empty.
C36_UnlessShrunkToNothing ==
    [][(class = "Queue" /\ ub = "none" /\ Queue_RingHolds(queue)
          /\ (queue.mCapacity > 0 => ~queue.mData.null)) =>
          /\ op' = "Reserve" =>
                Queue_Resized(queue, queue', Max(queue.mCapacity, arg'[1]))
          /\ (op' = "Shrink" /\ (impl = "part_002" \/ queue.mCount > 0)) =>
                Queue_Resized(queue, queue', queue.mCount)]_vars

\* C36's case: a Reserve has moved wrapped contents to new storage.
C36_WrappedMoved ==
    class = "Queue" /\ op = "Reserve" /\ pre.front > 0 /\ pre.count = pre.capacity
        /\ queue.mCapacity > pre.capacity /\ queue.mCount > 1

-----------------------------------------------------------------------------
(* The slots a Vector operation touches, in the order it touches them.     *)
(* A step is a record [k, i]: k is "construct" (construct_at and the       *)
(* uninitialized_ algorithms), "assign" (operator= and the algorithms      *)
(* move, move_backward, fill_n, copy), "read" (the source of a move) or    *)
(* "destroy", and i is the index of the slot.                              *)

\* m elements, the j-th read at from(j) and written at to(j) in the way k.
Slots_moved(m, from(_), to(_), k) ==
    [n \in 1..(2 * m) |->
        LET j == (n + 1) \div 2
        IN IF n % 2 = 1 THEN [k |-> "read", i |-> from(j)] ELSE [k |-> k, i |-> to(j)]]

\* Slots first .. first + n - 1, each touched in the way k.
Slots_each(first, n, k) == [j \in 1..n |-> [k |-> k, i |-> first + j - 1]]

\* std::move_backward(p + first, p + last, p + d_last)
Slots_move_backward(first, last, d_last) ==
    Slots_moved(last - first, LAMBDA j : last - j, LAMBDA j : d_last - j, "assign")

\* std::move(p + first, p + last, p + dest)
Slots_move(first, last, dest) ==
    Slots_moved(last - first, LAMBDA j : first + j - 1, LAMBDA j : dest + j - 1, "assign")

\* std::uninitialized_move(p + first, p + last, p + dest)
Slots_uninitialized_move(first, last, dest) ==
    Slots_moved(last - first, LAMBDA j : first + j - 1, LAMBDA j : dest + j - 1, "construct")

\* src/Vector.h, past the range check and the growth; size is _size at entry.
\* insert(size_t pos, const T& value)
Vector_insert_slots(size, pos) ==
    IF pos < size
    THEN <<[k |-> "read", i |-> size - 1], [k |-> "construct", i |-> size]>>
         \o Slots_move_backward(pos, size, size + 1)
         \o <<[k |-> "assign", i |-> pos]>>
    ELSE <<[k |-> "construct", i |-> pos]>>

\* emplace(size_t pos, Args&&... args)
Vector_emplace_slots(size, pos) ==
    IF pos < size
    THEN <<[k |-> "read", i |-> size - 1], [k |-> "construct", i |-> size]>>
         \o Slots_move_backward(pos, size, size + 1)
         \o <<[k |-> "destroy", i |-> pos], [k |-> "construct", i |-> pos]>>
    ELSE <<[k |-> "construct", i |-> pos]>>

\* insert(size_t pos, size_t count, const T& value)
Vector_insertN_slots(size, pos, count) ==
    IF count = 0 THEN << >>
    ELSE LET elems_to_move == size - pos
         IN (IF elems_to_move > 0
             THEN Slots_uninitialized_move(size - elems_to_move, size,
                                           size + count - elems_to_move)
             ELSE << >>)
            \o Slots_each(pos, count, "assign")

\* insert(size_t pos, std::initializer_list<T> ilist), count its length
Vector_insertList_slots(size, pos, count) ==
    IF count = 0 THEN << >>
    ELSE (IF size - pos > 0 THEN Slots_uninitialized_move(pos, size, pos + count)
          ELSE << >>)
         \o Slots_each(pos, count, "assign")

\* erase(size_t pos): move, and pop_back
Vector_erase_slots(size, pos) ==
    Slots_move(pos + 1, size, pos) \o <<[k |-> "destroy", i |-> size - 1]>>

\* erase(size_t first, size_t last)
Vector_eraseRange_slots(size, first, last) ==
    IF first = last THEN << >>
    ELSE (IF size - last > 0 THEN Slots_move(last, size, first) ELSE << >>)
         \o Slots_each(size - (last - first), last - first, "destroy")

\* resize(size_t count), past its reserve
Vector_resize_slots(size, count) ==
    IF count < size THEN Vector_eraseRange_slots(size, count, size)
    ELSE Slots_each(size, count - size, "construct")

\* resize(size_t count, const T& value)
Vector_resizeWith_slots(size, count) ==
    IF count < size THEN Vector_eraseRange_slots(size, count, size)
    ELSE IF count > size THEN Vector_insertN_slots(size, size, count - size)
    ELSE << >>

\* src/unnamed/part_001, past the range check and the growth.
\* emplace(size_t pos, Args&&... args), and insert(pos, value) through it
Vector2_emplace_slots(size, pos) ==
    Slots_move_backward(pos, size, size + 1) \o <<[k |-> "construct", i |-> pos]>>

\* insert(size_t pos, size_t count, const T& value) and
\* insert(size_t pos, std::initializer_list<T> ilist)
Vector2_insertN_slots(size, pos, count) ==
    IF count = 0 THEN << >>
    ELSE Slots_move_backward(pos, size, size + count)
         \o Slots_each(pos, count, "construct")

\* erase(size_t pos)
Vector2_erase_slots(size, pos) ==
    <<[k |-> "destroy", i |-> pos]>> \o Slots_move(pos + 1, size, pos)

\* erase(size_t pos, size_t count)
Vector2_eraseN_slots(size, pos, count) ==
    Slots_each(pos, count, "destroy") \o Slots_move(pos + count, size, pos)

\* resize(size_t count) and resize(size_t count, const T& value), past the
\* reserve
Vector2_resize_slots(size, count) ==
    IF count < size THEN Vector2_eraseN_slots(size, count, size - count)
    ELSE Slots_each(size, count - size, "construct")

\* The steps of the call o with the arguments a that took a Vector of the
\* variant v from _size = size to _size = after.
Vector_slots(v, o, a, size, after) ==
    IF v = "Vector.h"
    THEN CASE o = "insert" -> Vector_insert_slots(size, a[1])
           [] o = "emplace" -> Vector_emplace_slots(size, a[1])
           [] o = "insert_n" -> Vector_insertN_slots(size, a[1], a[2])
           [] o = "insert_list" -> Vector_insertList_slots(size, a[1], after - size)
           [] o = "erase" -> Vector_erase_slots(size, a[1])
           [] o = "erase_range" -> Vector_eraseRange_slots(size, a[1], a[2])
           [] o = "resize" -> Vector_resize_slots(size, after)
           [] o = "resize_with" -> Vector_resizeWith_slots(size, after)
    ELSE CASE o \in {"insert", "emplace"} -> Vector2_emplace_slots(size, a[1])
           [] o = "insert_n" -> Vector2_insertN_slots(size, a[1], a[2])
           [] o = "insert_list" -> Vector2_insertN_slots(size, a[1], after - size)
           [] o = "erase" -> Vector2_erase_slots(size, a[1])
           [] o = "erase_n" -> Vector2_eraseN_slots(size, a[1], a[2])
           [] o \in {"resize", "resize_with"} -> Vector2_resize_slots(size, after)

SlotOps == {"insert", "emplace", "insert_n", "insert_list", "erase", "erase_range",
            "erase_n", "resize", "resize_with"}

\* The occupied slots after the steps from the n-th on, begun with the slots
\* occ occupied; ok says that every construction found its slot unoccupied
\* and inside the storage of capacity slots, and every assignment, read and
\* destruction found its slot occupied.
RECURSIVE Slots_After(_, _, _, _)
Slots_After(occ, steps, n, capacity) ==
    IF n > Len(steps) THEN [ok |-> TRUE, occ |-> occ]
    ELSE LET s == steps[n]
         IN IF s.k = "construct"
            THEN IF s.i \in occ \/ s.i >= capacity THEN [ok |-> FALSE, occ |-> occ]
                 ELSE Slots_After(occ \cup {s.i}, steps, n + 1, capacity)
            ELSE IF s.i \notin occ THEN [ok |-> FALSE, occ |-> occ]
                 ELSE Slots_After(IF s.k = "destroy" THEN occ \ {s.i} ELSE occ,
                                  steps, n + 1, capacity)

\* The call that took the Vector from `before` to `after` kept the
\* discipline, begun with exactly the slots [0, _size) occupied, and ended
\* with exactly the slots [0, _size) occupied.
Vector_Disciplined(v, o, a, before, after) ==
    LET done == Slots_After(0..(before._size - 1),
                            Vector_slots(v, o, a, before._size, after._size),
                            1, after._capacity)
    IN done.ok /\ done.occ = 0..(after._size - 1)

\* C37: Vector, both variants: in insert (one element, count elements, a
\* list), emplace, erase and resize every construction targets an unoccupied
\* slot and every assignment, move and destruction an occupied one, and the
\* call returns with exactly the slots [0, size) occupied.
C37_SlotDiscipline ==
    [][(class = "Vector" /\ ub = "none" /\ op' \in SlotOps /\ err' = "none"
          /\ ub' # "wild erase") =>
          Vector_Disciplined(impl, op', arg', vec, vec')]_vars

\* C37 for the calls of src/Vector.h other than the bulk inserts that do not
\* fill exactly the slots [pos, size), and for the calls of
\* src/unnamed/part_001 that move no element.
C37_WhereNothingOverlaps ==
    [][(class = "Vector" /\ ub = "none" /\ op' \in SlotOps /\ err' = "none"
          /\ ub' # "wild erase"
          /\ IF impl = "Vector.h"
             THEN \/ op' \in {"insert", "emplace", "erase", "erase_range", "resize"}
                  \/ vec'._size <= vec._size
                  \/ arg' # << >> /\ arg'[1] + (vec'._size - vec._size) = vec._size
             ELSE \/ vec'._size = vec._size
                  \/ op' \in {"resize", "resize_with"}
                  \/ op' \in {"insert", "emplace", "insert_n", "insert_list"}
                       /\ arg'[1] = vec._size
                  \/ op' = "erase" /\ arg'[1] = vec._size - 1
                  \/ op' = "erase_n" /\ arg'[1] + arg'[2] = vec._size) =>
          Vector_Disciplined(impl, op', arg', vec, vec')]_vars

-----------------------------------------------------------------------------
(* The range check of erase(pos, count).                                   *)

\* C38: Vector of src/unnamed/part_001, size_t being SizeBits wide:
\* erase(pos, count) with pos + count > _size, the sum taken in the
\* integers, signals OutOfRange and leaves the vector as it was, also where
\* the sum of the machine wraps.
C38_EraseRangeCheck ==
    [][(class = "Vector" /\ impl = "part_001" /\ ub = "none" /\ op' = "erase_n"
          /\ arg'[1] + arg'[2] > vec._size) =>
          /\ err' = "OutOfRange" /\ ub' = "none"
          /\ vec' = vec]_vars

\* C38 for the pairs whose sum does not wrap.
C38_WithinSizeT ==
    [][(class = "Vector" /\ impl = "part_001" /\ ub = "none" /\ op' = "erase_n"
          /\ arg'[1] + arg'[2] > vec._size /\ arg'[1] + arg'[2] <= SIZE_MAX) =>
          /\ err' = "OutOfRange" /\ ub' = "none"
          /\ vec' = vec]_vars

-----------------------------------------------------------------------------
(* The two Vectors side by side: vec is the Vector of src/Vector.h and rhs *)
(* the Vector of src/unnamed/part_001. Every call is made on both with the *)
(* same arguments; err is what the call on vec signalled and ret what the  *)
(* call on rhs signalled.                                                  *)

BothImpls == "both"

InitVariants ==
    /\ class = "Vectors"
    /\ impl = BothImpls
    /\ \E l \in SeqsUpTo(Elems, MaxList) :
          /\ \/ vec = Vector_FromList(l) /\ rhs = Vector2_FromList(l)
             \/ l = << >> /\ vec = Vector_Vector /\ rhs = Vector2_Vector
          /\ arg = l
    /\ abs = << >>
    /\ queue = Unused /\ pq = Unused /\ stack = Unused /\ list = Unused
    /\ op = "list" /\ err = "none" /\ ret = "none" /\ ub = "none" /\ orphan = << >>
    /\ pre = [count |-> 0, capacity |-> 0, front |-> 0]

\* A call that throws std::out_of_range before it changes v, or ends as
\* done.
Checked(throws, v, done) ==
    IF throws THEN [v |-> v, e |-> "OutOfRange"] ELSE [v |-> done, e |-> "none"]

\* The call o(a) has left x of vec and y of rhs.
Both(o, a, x, y) ==
    /\ vec' = x.v /\ rhs' = y.v
    /\ CalledWith(o, a, x.e, y.e)
    /\ UNCHANGED abs /\ Alone("Vectors")

\* The two Vectors have the same size and the same elements.
Variants_Alike(a, b) == a._size = b._size /\ Vector_Elements(a) = Vector_Elements(b)

\* The run is followed for as long as the two Vectors agree.
Variants_Running == Running("Vectors") /\ impl = BothImpls /\ Variants_Alike(vec, rhs)
Variants_Room(count) == vec._size + count <= MaxSize /\ rhs._size + count <= MaxSize

Both_PushBack(x) ==
    /\ Variants_Running /\ Variants_Room(1)
    /\ Both("push_back", << >>,
            Checked(FALSE, vec, Vector_push_back(vec, x)),
            Checked(FALSE, rhs, Vector2_emplace_back(rhs, x)))
    /\ UNCHANGED ub

Both_Insert(pos, x) ==
    /\ Variants_Running /\ Variants_Room(1)
    /\ Both("insert", <<pos>>,
            Checked(Vector_insert_throws(vec, pos), vec, Vector_insert(vec, pos, x)),
            Checked(Vector2_emplace_throws(rhs, pos), rhs, Vector2_emplace(rhs, pos, x)))
    /\ UNCHANGED ub

\* Whether src/Vector.h's insert of count elements at pos moves onto an
\* overlapping range.
Both_Overlaps(pos, count) ==
    ~Vector_insert_throws(vec, pos) /\ Vector_insert_overlaps(vec, pos, count)

Both_InsertN(pos, count, x) ==
    /\ Variants_Running /\ Variants_Room(count)
    /\ \E kind \in IF Both_Overlaps(pos, count) THEN MoveKinds ELSE {"elementwise"} :
          Both("insert_n", <<pos, count>>,
               Checked(Vector_insert_throws(vec, pos), vec,
                       Vector_insertN_as(kind, vec, pos, count, x)),
               Checked(Vector2_emplace_throws(rhs, pos), rhs,
                       Vector2_insertN(rhs, pos, count, x)))
    /\ ub' = IF Both_Overlaps(pos, count) THEN "overlapping move" ELSE "none"

Both_InsertList(pos, l) ==
    /\ Variants_Running /\ Variants_Room(Len(l))
    /\ \E kind \in IF Both_Overlaps(pos, Len(l)) THEN MoveKinds ELSE {"elementwise"} :
          Both("insert_list", <<pos>>,
               Checked(Vector_insert_throws(vec, pos), vec,
                       Vector_insertList_as(kind, vec, pos, l)),
               Checked(Vector2_emplace_throws(rhs, pos), rhs,
                       Vector2_insertList(rhs, pos, l)))
    /\ ub' = IF Both_Overlaps(pos, Len(l)) THEN "overlapping move" ELSE "none"

Both_Erase(pos) ==
    /\ Variants_Running
    /\ Both("erase", <<pos>>,
            Checked(Vector_erase_throws(vec, pos), vec, Vector_erase(vec, pos)),
            Checked(Vector2_erase_throws(rhs, pos), rhs, Vector2_erase(rhs, pos)))
    /\ UNCHANGED ub

\* erase(a, b): erase(first, last) of src/Vector.h and erase(pos, count) of
\* src/unnamed/part_001.
Both_EraseTwo(a, b) ==
    /\ Variants_Running
    /\ \E y \in IF Vector2_eraseN_wraps(rhs, a, b)
                THEN {[v |-> rhs, e |-> "none"],
                      [v |-> Vector2_eraseN(rhs, a, b), e |-> "none"]}
                ELSE {Checked(Vector2_eraseN_throws(rhs, a, b), rhs,
                              Vector2_eraseN(rhs, a, b))} :
          Both("erase_two", <<a, b>>,
               Checked(Vector_eraseRange_throws(vec, a, b), vec,
                       Vector_eraseRange(vec, a, b)),
               y)
    /\ ub' = IF Vector2_eraseN_wraps(rhs, a, b) THEN "wild erase" ELSE "none"

Both_Resize(count) ==
    /\ Variants_Running
    /\ Both("resize", <<count>>,
            Checked(FALSE, vec, Vector_resize(vec, count)),
            Checked(FALSE, rhs, Vector2_resize(rhs, count)))
    /\ UNCHANGED ub

Both_ResizeWith(count, x) ==
    /\ Variants_Running
    /\ Both("resize_with", <<count>>,
            Checked(FALSE, vec, Vector_resizeWith(vec, count, x)),
            Checked(FALSE, rhs, Vector2_resizeWith(rhs, count, x)))
    /\ UNCHANGED ub

Both_Reserve(n) ==
    /\ Variants_Running
    /\ Both("reserve", <<n>>,
            Checked(FALSE, vec, Vector_reserve(vec, n)),
            Checked(FALSE, rhs, Vector2_reserve(rhs, n)))
    /\ UNCHANGED ub

Both_ShrinkToFit ==
    /\ Variants_Running
    /\ Both("shrink_to_fit", << >>,
            Checked(FALSE, vec, Vector_shrink_to_fit(vec)),
            Checked(FALSE, rhs, Vector2_shrink_to_fit(rhs)))
    /\ UNCHANGED ub

Both_Clear ==
    /\ Variants_Running
    /\ Both("clear", << >>,
            Checked(FALSE, vec, Vector_clear(vec)),
            Checked(FALSE, rhs, Vector2_clear(rhs)))
    /\ UNCHANGED ub

NextVariants ==
    \/ \E x \in Elems : Both_PushBack(x)
    \/ \E pos \in 0..MaxSize, x \in Elems : Both_Insert(pos, x)
    \/ \E pos \in 0..MaxSize, count \in 0..MaxList, x \in Elems : Both_InsertN(pos, count, x)
    \/ \E pos \in 0..MaxSize, l \in SeqsUpTo(Elems, MaxList) : Both_InsertList(pos, l)
    \/ \E pos \in 0..MaxSize : Both_Erase(pos)
    \/ \E a \in SizeArgs, b \in SizeArgs : Both_EraseTwo(a, b)
    \/ \E count \in 0..MaxSize : Both_Resize(count)
    \/ \E count \in 0..MaxSize, x \in Elems : Both_ResizeWith(count, x)
    \/ \E n \in 0..MaxReserve : Both_Reserve(n)
    \/ Both_ShrinkToFit
    \/ Both_Clear

SpecVariants == InitVariants /\ [][NextVariants]_vars

\* C39: the Vector of src/Vector.h and the Vector of src/unnamed/part_001,
\* given the same calls with the same arguments (push_back, insert of one
\* element, of count elements and of a list, erase(pos), erase(a, b),
\* resize, reserve, shrink_to_fit, clear): after every call both have
\* signalled the same outcome and have the same size and the same contents.
C39_VariantsAgree ==
    [][(class = "Vectors" /\ impl = BothImpls /\ Variants_Alike(vec, rhs)) =>
          /\ err' = ret' /\ ub' = "none"
          /\ Variants_Alike(vec', rhs')]_vars

\* C39 without the calls erase(a, b) with a > 0 that do not throw in both
\* variants, and without the bulk inserts that src/Vector.h moves onto an
\* overlapping range.
C39_UnlessRangeOrOverlap ==
    [][(class = "Vectors" /\ impl = BothImpls /\ Variants_Alike(vec, rhs)
          /\ ub' # "overlapping move"
          /\ (op' = "erase_two" =>
                \/ arg'[1] = 0 /\ ub' = "none"
                \/ err' = "OutOfRange" /\ ret' = "OutOfRange")) =>
          /\ err' = ret' /\ ub' = "none"
          /\ Variants_Alike(vec', rhs')]_vars

-----------------------------------------------------------------------------
(* The loops of the PriorityQueue, one pass at a time.                     *)
(* op is the function under way ("idle" between the calls), arg its index  *)
(* (heapifyUp, heapifyDown) or its loop variable i (makeHeap), ret the     *)
(* number of exchanges the heapify call under way has made, abs the calls  *)
(* that wait for it to return, and pre.front the index it was called with. *)

\* One pass of the while loop of heapifyUp: the storage and the index after
\* it, whether it exchanged two elements, and whether it left the loop.
PriorityQueue_heapifyUp_pass_Halved(p, index) ==
    IF index > 0
    THEN LET parent == index \div 2
         IN IF ~mCompare(Load(p, parent), Load(p, index))
            THEN [p |-> p, index |-> index, swapped |-> FALSE, done |-> TRUE]
            ELSE [p |-> swap(p, index, parent), index |-> parent,
                  swapped |-> TRUE, done |-> FALSE]
    ELSE [p |-> p, index |-> index, swapped |-> FALSE, done |-> TRUE]

PriorityQueue_heapifyUp_pass(p, index) ==
    IF index > 0
    THEN LET parent == (index - 1) \div 2
         IN IF ~mCompare(Load(p, parent), Load(p, index))
            THEN [p |-> p, index |-> index, swapped |-> FALSE, done |-> TRUE]
            ELSE [p |-> swap(p, index, parent), index |-> parent,
                  swapped |-> TRUE, done |-> FALSE]
    ELSE [p |-> p, index |-> index, swapped |-> FALSE, done |-> TRUE]

\* One pass of the while loop of heapifyDown.
PriorityQueue_heapifyDown_pass(p, count, index) ==
    LET left == index * 2 + 1
        right == index * 2 + 2
        l1 == IF left < count /\ mCompare(Load(p, index), Load(p, left))
              THEN left ELSE index
        largest == IF right < count /\ mCompare(Load(p, l1), Load(p, right))
                   THEN right ELSE l1
    IN IF largest = index
       THEN [p |-> p, index |-> index, swapped |-> FALSE, done |-> TRUE]
       ELSE [p |-> swap(p, index, largest), index |-> largest,
             swapped |-> TRUE, done |-> FALSE]

Heap_Frame == UNCHANGED <<class, impl, queue, stack, vec, list, rhs, ub, orphan, err>>

\* heapifyUp(index) or heapifyDown(index) is entered; i is the loop variable
\* of the makeHeap that waits for it.
Heap_Enter(f, index, waiting, i) ==
    /\ op' = f /\ arg' = <<index>> /\ ret' = 0 /\ abs' = waiting
    /\ pre' = [pre EXCEPT !.front = index, !.count = i]

Heap_Idle == class = "Heap" /\ op = "idle"

\* The object after PriorityQueue(size_t capacity), or in
\* PriorityQueue(std::initializer_list<T>) at the loop of makeHeap (past
\* makeHeap where mCount <= 1).
InitHeap ==
    /\ class = "Heap"
    /\ impl = "PriorityQueue.h"
    /\ \/ /\ \E c \in 0..MaxInitCap : pq = PriorityQueue_PriorityQueue(c)
          /\ op = "idle" /\ arg = << >>
       \/ \E l \in SeqsUpTo(Keys, MaxCount) :
             /\ pq = [mData |-> uninitialized_move_n(ListBuf(l), 0, Len(l),
                                                    Alloc(Len(l)), 0),
                      mCount |-> Len(l), mCapacity |-> Len(l), log |-> << >>]
             /\ IF Len(l) <= 1 THEN op = "idle" /\ arg = << >>
                ELSE op = "makeHeap" /\ arg = <<Len(l) \div 2>>
    /\ queue = Unused /\ stack = Unused /\ vec = Unused /\ list = Unused /\ rhs = Unused
    /\ ret = 0 /\ abs = << >>
    /\ err = "none" /\ ub = "none" /\ orphan = << >>
    /\ pre = [count |-> 0, capacity |-> 0, front |-> 0]

\* Emplace / Enqueue up to its call of heapifyUp.
Heap_Enqueue(v) ==
    /\ Heap_Idle /\ pq.mCount < MaxCount
    /\ LET e == PriorityQueue_ensureCapacity(pq, pq.mCount + 1)
       IN /\ pq' = [e EXCEPT !.mData = Store(e.mData, e.mCount, v),
                             !.mCount = e.mCount + 1, !.log = << >>]
          /\ Heap_Enter("heapifyUp", e.mCount, <<"Enqueue">>, 0)
    /\ Heap_Frame

\* Dequeue past checkEmpty, up to its call of heapifyDown or to its return.
Heap_Dequeue ==
    /\ Heap_Idle /\ pq.mCount > 0
    /\ pq' = [pq EXCEPT !.mData = destroy_n(swap(pq.mData, 0, pq.mCount - 1),
                                            pq.mCount - 1, 1),
                        !.mCount = pq.mCount - 1]
    /\ IF pq.mCount - 1 > 0
       THEN Heap_Enter("heapifyDown", 0, <<"Dequeue">>, 0)
       ELSE op' = "idle" /\ arg' = << >> /\ ret' = 0 /\ abs' = << >> /\ pre' = pre
    /\ Heap_Frame

\* for (size_t i = (mCount / 2); i-- > 0;): the test, and the call of
\* heapifyDown(i) or the return.
Heap_makeHeap ==
    /\ class = "Heap" /\ op = "makeHeap"
    /\ IF arg[1] > 0
       THEN Heap_Enter("heapifyDown", arg[1] - 1, <<"makeHeap">>, arg[1] - 1)
       ELSE op' = "idle" /\ arg' = << >> /\ ret' = ret /\ abs' = << >> /\ pre' = pre
    /\ UNCHANGED pq /\ Heap_Frame

\* A heapify call leaves its loop: it returns to makeHeap or to a call that
\* returns at once.
Heap_Return ==
    IF abs = <<"makeHeap">>
    THEN op' = "makeHeap" /\ arg' = <<pre.count>> /\ abs' = << >>
    ELSE op' = "idle" /\ arg' = << >> /\ abs' = << >>

Heap_heapifyUp ==
    /\ class = "Heap" /\ op = "heapifyUp"
    /\ LET s == PriorityQueue_heapifyUp_pass(pq.mData, arg[1])
       IN /\ pq' = [pq EXCEPT !.mData = s.p]
          /\ ret' = IF s.swapped THEN ret + 1 ELSE ret
          /\ IF s.done THEN Heap_Return
             ELSE op' = op /\ arg' = <<s.index>> /\ abs' = abs
    /\ pre' = pre /\ Heap_Frame

Heap_heapifyDown ==
    /\ class = "Heap" /\ op = "heapifyDown"
    /\ LET s == PriorityQueue_heapifyDown_pass(pq.mData, pq.mCount, arg[1])
       IN /\ pq' = [pq EXCEPT !.mData = s.p]
          /\ ret' = IF s.swapped THEN ret + 1 ELSE ret
          /\ IF s.done THEN Heap_Return
             ELSE op' = op /\ arg' = <<s.index>> /\ abs' = abs
    /\ pre' = pre /\ Heap_Frame

NextHeap ==
    \/ \E v \in Keys : Heap_Enqueue(v)
    \/ Heap_Dequeue
    \/ Heap_makeHeap
    \/ Heap_heapifyUp
    \/ Heap_heapifyDown

SpecHeap == InitHeap /\ [][NextHeap]_vars

\* A function under way takes its next step: the program is one thread that
\* runs a call to its end.
SpecHeapRuns ==
    /\ SpecHeap
    /\ WF_vars(Heap_makeHeap) /\ WF_vars(Heap_heapifyUp) /\ WF_vars(Heap_heapifyDown)

\* floor(log2(n)) for n >= 1.
FloorLog2(n) == CHOOSE k \in 0..n : 2 ^ k <= n /\ n < 2 ^ (k + 1)

\* C40: PriorityQueue: a heapifyUp and a heapifyDown on a heap of mCount = n
\* elements have made at most floor(log2(n)) exchanges at every point of
\* their loops, heapifyUp with an index that only goes down and heapifyDown
\* with an index that stays below n; and every heapifyUp, heapifyDown and
\* makeHeap under way returns, so Enqueue, Dequeue and the construction from
\* a list return.
C40_Terminates ==
    /\ []((class = "Heap" /\ op \in {"heapifyUp", "heapifyDown"}) =>
            /\ pq.mCount >= 1 /\ ret <= FloorLog2(pq.mCount)
            /\ arg[1] < pq.mCount
            /\ op = "heapifyUp" => arg[1] + ret <= pre.front
            /\ op = "heapifyDown" => arg[1] >= pre.front + ret)
    /\ (class = "Heap" /\ op # "idle") ~> (class = "Heap" /\ op = "idle")

\* C40's case: a heapify call on a heap of four elements has gone the whole
\* way between the root and the lowest level.
C40_Witness ==
    /\ class = "Heap" /\ op = "idle" /\ pq.mCount = 4 /\ ret = FloorLog2(4)

\* ... and a makeHeap on three elements has returned after its exchange.
C40_WitnessMakeHeap ==
    /\ class = "Heap" /\ op = "idle" /\ pq.mCount = 3 /\ ret = 1 /\ pre.front = 0
    /\ pq.mData.slot[1] > pq.mData.slot[2]

=============================================================================
